---- MODULE Spec2Model ----
(***************************************************************************)
(* goskills: the SKILL.md parser, the commands that loop over it, the run   *)
(* command and its tools.                                                  *)
(*                                                                         *)
(* Spec is the scan of parseMarkdownBody, SpecPkg is ParseSkillPackage,    *)
(* SpecBatch is the list and search commands and discoverSkills with       *)
(* selectSkill, SpecRun is the run command with executeSkillWithTools      *)
(* (SpecRunFair adds fairness), SpecPy is RunPythonScript.                 *)
(*                                                                         *)
(* Text is modelled as a sequence of one-character strings, so that the    *)
(* regular expressions, prefix tests and trimming of the source are        *)
(* computed on characters.  A body is the sequence of lines the            *)
(* bufio.Scanner delivers (line terminators already removed).              *)
(***************************************************************************)
EXTENDS Integers, Sequences, FiniteSets, TLC

VARIABLES
    body,            \* the lines scanner.Scan() will deliver, in order
    pos,             \* index of the next line the scanner delivers
    parts,           \* parts []SkillBodyPart
    currentContent,  \* currentContent strings.Builder
    inCodeBlock,     \* inCodeBlock bool
    pc,              \* "scan" in the main loop, "done" returned, "panic" aborted,
                     \* "idle" before ParseSkillPackage calls parseMarkdownBody
    stage,           \* position of ParseSkillPackage ("none": it is not running)
    dirKind,         \* what os.Stat(dirPath) found
    mdContent,       \* what os.ReadFile(SKILL.md) found: the bytes, or why not
    meta,            \* meta SkillMeta
    bodyStr,         \* bodyStr string
    resEnv,          \* what each resource directory holds, once scanned
    resFiles,        \* scripts, references, assets as returned by findResourceFiles
    pkg,             \* the returned *SkillPackage (NoPkg: nil)
    err,             \* the returned error (NoErr: nil)
    ioLog,           \* the file-system calls made so far, in order
    cmd,             \* the batch operation running: "list", "search", "run"
    root,            \* what os.ReadDir(skillsRoot) finds
    entries,         \* entries []os.DirEntry, with what each path holds
    idx,             \* index of the entry the range loop visits next
    query,           \* query of the search command
    out,             \* the skill lines printed so far, in order
    skills,          \* skills map[string]SkillPackage of discoverSkills
    prompt,          \* the skill lines selectSkill wrote into the prompt
    parsed,          \* skillPackage, err of the call in the loop body
    bErr,            \* the error the batch operation returned
    bpc,             \* position of the batch operation
    apiKey,          \* os.Getenv("OPENAI_API_KEY")
    selectedSkillName, \* selectedSkillName of runCmd
    messages,        \* messages []openai.ChatCompletionMessage
    toolCalls,       \* toolCalls []openai.ToolCall of the current round
    fullResponseContent, \* fullResponseContent strings.Builder
    recvd,           \* number of chunks stream.Recv() has delivered in this round
    tcIdx,           \* index of the tool call the range loop visits next
    printed,         \* the text response printed by executeSkillWithTools
    calls,           \* the functions runCmd has called so far, in order
    rErr,            \* the error runCmd returned
    rpc,             \* position of the run command
    interp,          \* what exec.Command finds for "python3" and "python"
    pyRuns,          \* the interpreters that have executed the script, in order
    stdout,          \* stdout bytes.Buffer
    stderr,          \* stderr bytes.Buffer
    pyOut,           \* the string RunPythonScript returned
    pyErr,           \* the error RunPythonScript returned
    ppc              \* position of RunPythonScript

scanVars == <<body, pos, parts, currentContent, inCodeBlock, pc>>
pkgVars == <<stage, dirKind, mdContent, meta, bodyStr, resEnv, resFiles, pkg, err, ioLog>>
batchVars == <<cmd, root, entries, idx, query, out, skills, prompt, parsed, bErr, bpc>>
runVars == <<apiKey, selectedSkillName, messages, toolCalls,
             fullResponseContent, recvd, tcIdx, printed, calls, rErr, rpc>>
pyVars == <<interp, pyRuns, stdout, stderr, pyOut, pyErr, ppc>>
vars == <<body, pos, parts, currentContent, inCodeBlock, pc,
          stage, dirKind, mdContent, meta, bodyStr, resEnv, resFiles, pkg, err, ioLog,
          cmd, root, entries, idx, query, out, skills, prompt, parsed, bErr, bpc,
          apiKey, selectedSkillName, messages, toolCalls,
          fullResponseContent, recvd, tcIdx, printed, calls, rErr, rpc,
          interp, pyRuns, stdout, stderr, pyOut, pyErr, ppc>>

----------------------------------------------------------------------------
(* Bounds of the model *)

MaxLines == 4
MaxDocLines == 4

----------------------------------------------------------------------------
(* Characters and strings *)

NL == "\n"

\* the backtick character (U+0060), which a TLA+ string cannot hold
BQ == "BACKTICK"

\* unicode.IsSpace / the regexp class \s, restricted to the characters used
IsSpace(c) == c \in {" ", "\t", "\n", "\r"}

SetMin(S) == CHOOSE x \in S : \A y \in S : x <= y
SetMax(S) == CHOOSE x \in S : \A y \in S : x >= y

\* strings.HasPrefix(s, p)
HasPrefix(s, p) == Len(s) >= Len(p) /\ SubSeq(s, 1, Len(p)) = p

\* s[i:] starts with p (i is 1-based)
HasPrefixAt(s, i, p) ==
    i >= 1 /\ Len(s) >= i + Len(p) - 1 /\ SubSeq(s, i, i + Len(p) - 1) = p

\* strings.TrimSpace(s)
TrimSpace(s) ==
    LET keep == {i \in 1..Len(s) : ~IsSpace(s[i])}
    IN  IF keep = {} THEN <<>> ELSE SubSeq(s, SetMin(keep), SetMax(keep))

\* the greedy \s* of the regular expressions: first index >= i that holds no
\* white space (Len(s) + 1 when the rest is white space)
SkipSpace(s, i) ==
    SetMin({j \in i..(Len(s) + 1) : j = Len(s) + 1 \/ ~IsSpace(s[j])})

\* the lines of b from index i to j, each followed by its line break
RECURSIVE JoinLines(_, _, _)
JoinLines(b, i, j) == IF i > j THEN <<>> ELSE b[i] \o <<NL>> \o JoinLines(b, i + 1, j)

Fence == <<BQ,BQ,BQ>>
ImplPrefix == <<"T","h","i","s"," ","i","s"," ","t","h","e"," ","i","m","p","l","e","m","e","n","t","a","t","i","o","n"," ","i","n"," ">>
TitleKey == <<"t","i","t","l","e",":">>

\* the bracket expressions of titleRegex and sectionRegex are character classes
TitleClass == {"T", "i", "t", "l", "e"}
SectionClass == {"S", "e", "c", "t", "i", "o", "n"}

----------------------------------------------------------------------------
(* The three regular expressions.  Each operator is FindStringSubmatch:     *)
(* <<>> (nil) when the line does not match, else <<whole match, group 1>>.  *)

\* titleRegex = ^[Title]\s*:\s*(.*)
titleRegex(line) ==
    IF Len(line) >= 1 /\ line[1] \in TitleClass
    THEN LET j == SkipSpace(line, 2)
         IN  IF j <= Len(line) /\ line[j] = ":"
             THEN <<line, SubSeq(line, SkipSpace(line, j + 1), Len(line))>>
             ELSE <<>>
    ELSE <<>>

\* sectionRegex = ^[Section]\s*:\s*title:\s*"(.*)"
sectionRegex(line) ==
    IF Len(line) >= 1 /\ line[1] \in SectionClass
    THEN LET j == SkipSpace(line, 2)
         IN  IF j <= Len(line) /\ line[j] = ":"
             THEN LET k == SkipSpace(line, j + 1)
                  IN  IF HasPrefixAt(line, k, TitleKey)
                      THEN LET m == SkipSpace(line, k + Len(TitleKey))
                               quotes == {q \in (m + 1)..Len(line) : line[q] = "\""}
                           IN  IF m <= Len(line) /\ line[m] = "\"" /\ quotes # {}
                               THEN <<SubSeq(line, 1, SetMax(quotes)),
                                      SubSeq(line, m + 1, SetMax(quotes) - 1)>>
                               ELSE <<>>
                      ELSE <<>>
             ELSE <<>>
    ELSE <<>>

\* implRegex = ^This is the implementation in (.*)
implRegex(line) ==
    IF HasPrefix(line, ImplPrefix)
    THEN <<line, SubSeq(line, Len(ImplPrefix) + 1, Len(line))>>
    ELSE <<>>

----------------------------------------------------------------------------
(* Body parts *)

TitlePart(text) == [type |-> "Title", Text |-> text]
SectionPart(title, content) == [type |-> "Section", Title |-> title, Content |-> content]
MarkdownPart(content) == [type |-> "Markdown", Content |-> content]
ImplementationPart(language, code) ==
    [type |-> "Implementation", Language |-> language, Code |-> code]

----------------------------------------------------------------------------
(* parseMarkdownBody, one loop iteration at a time.  A scan state is the    *)
(* record [pos, parts, cur, inCode, pc]; b is the body (its lines).         *)

ScanStart ==
    [pos |-> 1, parts |-> <<>>, cur |-> <<>>, inCode |-> FALSE, pc |-> "scan"]

\* a fence line that can set the flag but never clear it
ToggledOpenOnly(s, line) == HasPrefix(line, Fence) \/ s.inCode

\* line 117-119: the fence toggle applied to the flag, before the marker tests
Toggled(s, line) == IF HasPrefix(line, Fence) THEN ~s.inCode ELSE s.inCode

\* the buffer flushed as a MarkdownPart put in front of the list
FlushMarkdownInFront(ps, cur) ==
    IF Len(cur) > 0 THEN <<MarkdownPart(TrimSpace(cur))>> \o ps ELSE ps

\* lines 123-126 and 131-134: flush the buffer as a MarkdownPart
FlushMarkdown(ps, cur) ==
    IF Len(cur) > 0 THEN Append(ps, MarkdownPart(TrimSpace(cur))) ELSE ps

\* the marker tests made whatever the fence flag says: the loop body without
\* its `if !inCodeBlock`
BranchIgnoringFence(s, line) ==
    IF Len(titleRegex(line)) > 1 THEN "title"
    ELSE IF Len(sectionRegex(line)) > 1 THEN "section"
    ELSE IF Len(implRegex(line)) > 1 THEN "impl"
    ELSE "content"

\* which branch of the loop body the line takes (lines 121-163)
Branch(s, line) ==
    IF ~Toggled(s, line)
    THEN IF Len(titleRegex(line)) > 1 THEN "title"
         ELSE IF Len(sectionRegex(line)) > 1 THEN "section"
         ELSE IF Len(implRegex(line)) > 1 THEN "impl"
         ELSE "content"
    ELSE "content"

\* lines 122-129
TitleBranch(s, line) ==
    [s EXCEPT !.parts = Append(FlushMarkdown(s.parts, s.cur), TitlePart(titleRegex(line)[2])),
              !.cur = <<>>,
              !.inCode = Toggled(s, line),
              !.pos = s.pos + 1]

\* lines 130-137
SectionBranch(s, line) ==
    [s EXCEPT !.parts = Append(FlushMarkdown(s.parts, s.cur),
                               SectionPart(sectionRegex(line)[2], <<>>)),
              !.cur = <<>>,
              !.inCode = Toggled(s, line),
              !.pos = s.pos + 1]

\* the code loop writing the line before it tests it for the fence
RECURSIVE CollectCodeKeepingFence(_, _, _)
CollectCodeKeepingFence(b, i, code) ==
    IF i > Len(b) THEN <<code, i>>
    ELSE IF HasPrefix(b[i], Fence) THEN <<code \o b[i] \o <<NL>>, i + 1>>
    ELSE CollectCodeKeepingFence(b, i + 1, code \o b[i] \o <<NL>>)

\* lines 152-158: the lines collected as code, starting at line index i:
\* <<code, index of the first line the main loop reads afterwards>>
RECURSIVE CollectCode(_, _, _)
CollectCode(b, i, code) ==
    IF i > Len(b) THEN <<code, i>>
    ELSE IF HasPrefix(b[i], Fence) THEN <<code, i + 1>>
    ELSE CollectCode(b, i + 1, code \o b[i] \o <<NL>>)

\* line 141: parts[len(parts)-1] is evaluated with no segment emitted yet
ImplPanics(s) == Len(s.cur) > 0 /\ Len(s.parts) = 0

\* lines 139-148: the buffer goes to the preceding Section, or is flushed
ImplFlush(ps, cur) ==
    IF Len(cur) > 0
    THEN IF ps[Len(ps)].type = "Section"
         THEN [ps EXCEPT ![Len(ps)].Content = TrimSpace(cur)]
         ELSE Append(ps, MarkdownPart(TrimSpace(cur)))
    ELSE ps

\* ImplBranch without the scanner.Scan() of line 151
ImplBranchNoSkip(b, s, line) ==
    IF ImplPanics(s)
    THEN [s EXCEPT !.pc = "panic"]
    ELSE LET got == CollectCode(b, s.pos + 1, <<>>)
         IN  [s EXCEPT !.parts = Append(ImplFlush(s.parts, s.cur),
                                        ImplementationPart(implRegex(line)[2], got[1])),
                       !.cur = <<>>,
                       !.inCode = Toggled(s, line),
                       !.pos = got[2]]

\* lines 138-161; scanner.Scan() on line 151 skips the line after the marker
ImplBranch(b, s, line) ==
    IF ImplPanics(s)
    THEN [s EXCEPT !.pc = "panic"]
    ELSE LET got == CollectCode(b, s.pos + 2, <<>>)
         IN  [s EXCEPT !.parts = Append(ImplFlush(s.parts, s.cur),
                                        ImplementationPart(implRegex(line)[2], got[1])),
                       !.cur = <<>>,
                       !.inCode = Toggled(s, line),
                       !.pos = got[2]]

\* line 163
ContentBranch(s, line) ==
    [s EXCEPT !.cur = s.cur \o line \o <<NL>>,
              !.inCode = Toggled(s, line),
              !.pos = s.pos + 1]

\* the flush at the end of the input without the test for a last Section
EndFlushAsMarkdown(s) ==
    [s EXCEPT !.parts = IF Len(s.cur) > 0
                        THEN Append(s.parts, MarkdownPart(TrimSpace(s.cur)))
                        ELSE s.parts,
              !.pc = "done"]

\* lines 166-180: the flush at the end of the input
EndFlush(s) ==
    [s EXCEPT !.parts =
                  IF Len(s.cur) > 0
                  THEN IF Len(s.parts) > 0
                       THEN IF s.parts[Len(s.parts)].type = "Section"
                               /\ s.parts[Len(s.parts)].Content = <<>>
                            THEN [s.parts EXCEPT ![Len(s.parts)].Content = TrimSpace(s.cur)]
                            ELSE Append(s.parts, MarkdownPart(TrimSpace(s.cur)))
                       ELSE Append(s.parts, MarkdownPart(TrimSpace(s.cur)))
                  ELSE s.parts,
              !.pc = "done"]

----------------------------------------------------------------------------
(* extractFrontmatterAndBody *)

\* marker := []byte("---")
Marker == <<"-","-","-">>

\* the n of bytes.SplitN(data, marker, 3)
SplitLimit == 3

\* bytes.Index(s, sep) as a 1-based index, 0 when sep does not occur
Index(s, sep) ==
    LET hits == {i \in 1..Len(s) : HasPrefixAt(s, i, sep)}
    IN  IF hits = {} THEN 0 ELSE SetMin(hits)

\* bytes.SplitN(s, sep, n) for n >= 1: at most n pieces, the last one unsplit
RECURSIVE SplitN(_, _, _)
SplitN(s, sep, n) ==
    LET i == Index(s, sep)
    IN  IF n <= 1 \/ i = 0
        THEN <<s>>
        ELSE <<SubSeq(s, 1, i - 1)>> \o SplitN(SubSeq(s, i + Len(sep), Len(s)), sep, n - 1)

\* bufio.ScanLines over a text: the lines without their terminators; a final
\* line without terminator counts, an empty rest does not
DropCR(line) ==
    IF Len(line) > 0 /\ line[Len(line)] = "\r" THEN SubSeq(line, 1, Len(line) - 1) ELSE line

RECURSIVE ScanLines(_)
ScanLines(s) ==
    IF s = <<>> THEN <<>>
    ELSE LET i == Index(s, <<NL>>)
         IN  IF i = 0 THEN <<DropCR(s)>>
             ELSE <<DropCR(SubSeq(s, 1, i - 1))>> \o ScanLines(SubSeq(s, i + 1, Len(s)))

\* type SkillMeta: the yaml key of each field
KeyName == <<"n","a","m","e">>
KeyDescription == <<"d","e","s","c","r","i","p","t","i","o","n">>
KeyAllowedTools == <<"a","l","l","o","w","e","d","-","t","o","o","l","s">>
KeyModel == <<"m","o","d","e","l">>
KeyAuthor == <<"a","u","t","h","o","r">>
KeyVersion == <<"v","e","r","s","i","o","n">>
KeyLicense == <<"l","i","c","e","n","s","e">>

MetaFields == {"Name", "Description", "AllowedTools", "Model", "Author", "Version", "License"}

\* the tags with allowed_tools written for allowed-tools
FieldKeyUnderscore(f) ==
    CASE f = "Name" -> KeyName
      [] f = "Description" -> KeyDescription
      [] f = "AllowedTools" -> <<"a","l","l","o","w","e","d","_","t","o","o","l","s">>
      [] f = "Model" -> KeyModel
      [] f = "Author" -> KeyAuthor
      [] f = "Version" -> KeyVersion
      [] f = "License" -> KeyLicense

\* the yaml tag of field f
FieldKey(f) ==
    CASE f = "Name" -> KeyName
      [] f = "Description" -> KeyDescription
      [] f = "AllowedTools" -> KeyAllowedTools
      [] f = "Model" -> KeyModel
      [] f = "Author" -> KeyAuthor
      [] f = "Version" -> KeyVersion
      [] f = "License" -> KeyLicense

\* var meta SkillMeta: the zero value (AllowedTools nil, the strings empty)
ZeroMeta == [f \in MetaFields |-> <<>>]

\* yaml.Unmarshal on a block mapping of `key: value` lines that start in
\* column one, with plain scalars and one-line flow sequences as values.
\* A line is parsed to [ok, key, kind, val]: kind "null", "scalar" or "seq".
TrimRight(s) ==
    LET keep == {i \in 1..Len(s) : ~IsSpace(s[i])}
    IN  IF keep = {} THEN <<>> ELSE SubSeq(s, 1, SetMax(keep))

RECURSIVE SplitItems(_)
SplitItems(s) ==
    LET i == Index(s, <<",">>)
    IN  IF i = 0 THEN <<TrimSpace(s)>>
        ELSE <<TrimSpace(SubSeq(s, 1, i - 1))>> \o SplitItems(SubSeq(s, i + 1, Len(s)))

YamlValue(v) ==
    IF v = <<>> THEN [ok |-> TRUE, kind |-> "null", val |-> <<>>]
    ELSE IF v[1] = "["
    THEN IF Len(v) >= 2 /\ v[Len(v)] = "]"
         THEN [ok |-> TRUE, kind |-> "seq",
               val |-> IF TrimSpace(SubSeq(v, 2, Len(v) - 1)) = <<>> THEN <<>>
                       ELSE SplitItems(SubSeq(v, 2, Len(v) - 1))]
         ELSE [ok |-> FALSE, kind |-> "seq", val |-> <<>>]   \* flow sequence not closed
    ELSE [ok |-> TRUE, kind |-> "scalar", val |-> v]

YamlLine(line) ==
    LET colons == {c \in 1..Len(line) :
                      line[c] = ":" /\ (c = Len(line) \/ line[c + 1] = " ")}
    IN  IF colons = {} \/ IsSpace(line[1])
        THEN [ok |-> FALSE, key |-> <<>>, kind |-> "null", val |-> <<>>]
        ELSE LET c == SetMin(colons)
                 v == YamlValue(TrimSpace(SubSeq(line, c + 1, Len(line))))
             IN  [ok |-> v.ok, key |-> SubSeq(line, 1, c - 1), kind |-> v.kind, val |-> v.val]

\* the non-blank lines of the block, parsed
YamlEntries(block) ==
    LET ls == ScanLines(block)
        keep == {i \in 1..Len(ls) : TrimRight(ls[i]) # <<>>}
    IN  {[at |-> i, e |-> YamlLine(TrimRight(ls[i]))] : i \in keep}

\* the kind of value a field decodes from
FieldKind(f) == IF f = "AllowedTools" THEN "seq" ELSE "scalar"

\* yaml.Unmarshal(block, &meta): [err, meta]; keys that are no field are
\* ignored, a field without key keeps its zero value, a key given twice, a
\* malformed line or a value of the wrong kind is an error
Unmarshal(block) ==
    LET es == YamlEntries(block)
        bad == \/ \E x \in es : ~x.e.ok
               \/ \E x, y \in es : x.at # y.at /\ x.e.key = y.e.key
               \/ \E x \in es : \E f \in MetaFields :
                      x.e.key = FieldKey(f) /\ x.e.kind \notin {"null", FieldKind(f)}
    IN  IF bad THEN [err |-> TRUE, meta |-> ZeroMeta]
        ELSE [err |-> FALSE,
              meta |-> [f \in MetaFields |->
                          IF \E x \in es : x.e.key = FieldKey(f)
                          THEN (CHOOSE x \in es : x.e.key = FieldKey(f)).e.val
                          ELSE <<>>]]

NoErr == "nil"
ErrNoFrontmatter == "no YAML frontmatter found or format is incorrect"
ErrBadFrontmatter == "failed to parse SKILL.md frontmatter"

\* extractFrontmatterAndBody(data): [meta, body, err]
extractFrontmatterAndBody(data) ==
    LET ps == SplitN(data, Marker, SplitLimit)
    IN  IF Len(ps) < 3
        THEN [meta |-> ZeroMeta, body |-> <<>>, err |-> ErrNoFrontmatter]
        ELSE LET y == Unmarshal(ps[2])
             IN  IF y.err
                 THEN [meta |-> y.meta, body |-> <<>>, err |-> ErrBadFrontmatter]
                 ELSE [meta |-> y.meta, body |-> TrimSpace(ps[3]), err |-> NoErr]

----------------------------------------------------------------------------
(* findResourceFiles *)

\* What a resource directory can be.  A "dir" lists the entries under it in
\* the order filepath.WalkDir visits them, each with its path below the
\* directory; the directory itself is visited first.
WalkTree ==
    <<[rel |-> <<>>, isDir |-> TRUE],
      [rel |-> <<"f">>, isDir |-> FALSE],
      [rel |-> <<"sub">>, isDir |-> TRUE],
      [rel |-> <<"sub", "g">>, isDir |-> FALSE]>>

\* a directory with nothing in it
WalkEmpty == <<[rel |-> <<>>, isDir |-> TRUE]>>

ResEnvs ==
    {[kind |-> "absent", walk |-> <<>>],
     [kind |-> "denied", walk |-> <<>>],
     [kind |-> "file", walk |-> <<[rel |-> <<>>, isDir |-> FALSE]>>],
     [kind |-> "dir", walk |-> WalkEmpty],
     [kind |-> "dir", walk |-> WalkTree]}

\* the callback of filepath.WalkDir without the d.IsDir() test
RECURSIVE WalkFilesAndDirs(_, _, _)
WalkFilesAndDirs(cat, walk, i) ==
    IF i > Len(walk) THEN <<>>
    ELSE <<(<<cat>> \o walk[i].rel)>> \o WalkFilesAndDirs(cat, walk, i + 1)

\* the callback of filepath.WalkDir over the entries from index i on
RECURSIVE WalkFiles(_, _, _)
WalkFiles(cat, walk, i) ==
    IF i > Len(walk) THEN <<>>
    ELSE IF ~walk[i].isDir
    THEN <<(<<cat>> \o walk[i].rel)>> \o WalkFiles(cat, walk, i + 1)
    ELSE WalkFiles(cat, walk, i + 1)

\* findResourceFiles without the os.IsNotExist test: filepath.WalkDir hands
\* the error of the missing root to the callback, which returns it
findResourceFilesNoExistTest(cat, env) ==
    IF env.kind \in {"absent", "denied"} THEN [files |-> <<>>, err |-> TRUE]
    ELSE [files |-> WalkFiles(cat, env.walk, 1), err |-> FALSE]

\* findResourceFiles(skillPath, cat): [files, err]
findResourceFiles(cat, env) ==
    IF env.kind = "absent" THEN [files |-> <<>>, err |-> FALSE]
    ELSE IF env.kind = "denied" THEN [files |-> <<>>, err |-> TRUE]
    ELSE [files |-> WalkFiles(cat, env.walk, 1), err |-> FALSE]

----------------------------------------------------------------------------
(* ParseSkillPackage: values *)

\* a *SkillPackage: <<>> is nil, <<p>> points to the package p
NoPkg == <<>>
Unset == "unset"
NoMd == [status |-> Unset, data |-> <<>>]
Unseen == [kind |-> "unseen", walk |-> <<>>]
ErrDirNotFound == "skill directory not found"
ErrStat == "stat failed"
ErrNotDir == "path is not a directory"
ErrNoSkillMd == "SKILL.md not found in skill directory"
ErrReadSkillMd == "failed to read SKILL.md"
ErrScan(cat) ==
    CASE cat = "scripts" -> "error scanning 'scripts' directory"
      [] cat = "references" -> "error scanning 'references' directory"
      [] cat = "assets" -> "error scanning 'assets' directory"

DirKinds == {"absent", "denied", "file", "dir"}

Categories == {"scripts", "references", "assets"}

NoResources == [c \in {"scripts", "references", "assets"} |-> <<>>]
NoResEnv == [c \in {"scripts", "references", "assets"} |-> Unseen]

\* the state of the variables of the run command while it is not running
RunIdle ==
    /\ apiKey = <<>>
    /\ selectedSkillName = <<>>
    /\ messages = <<>>
    /\ toolCalls = <<>>
    /\ fullResponseContent = <<>>
    /\ recvd = 0
    /\ tcIdx = 0
    /\ printed = <<>>
    /\ calls = <<>>
    /\ rErr = "nil"
    /\ rpc = "idle"

\* the state of the variables of RunPythonScript while it is not running
PyIdle ==
    /\ interp = "none"
    /\ pyRuns = <<>>
    /\ stdout = <<>>
    /\ stderr = <<>>
    /\ pyOut = <<>>
    /\ pyErr = "nil"
    /\ ppc = "idle"

\* the state of the variables of the batch operations while none is running
BatchIdle ==
    /\ cmd = "none"
    /\ root = "none"
    /\ entries = <<>>
    /\ idx = 0
    /\ query = <<>>
    /\ out = <<>>
    /\ skills = {}
    /\ prompt = <<>>
    /\ parsed = [pkg |-> <<>>, err |-> "nil", panic |-> FALSE]
    /\ bErr = "nil"
    /\ bpc = "idle"

\* the state of the variables of ParseSkillPackage while it is not running
PkgIdle ==
    /\ stage = "none"
    /\ dirKind = Unset
    /\ mdContent = NoMd
    /\ meta = ZeroMeta
    /\ bodyStr = <<>>
    /\ resEnv = NoResEnv
    /\ resFiles = NoResources
    /\ pkg = NoPkg
    /\ err = NoErr
    /\ ioLog = <<>>

----------------------------------------------------------------------------
(* Inputs: bodies over a lexicon of lines, and the documented scenario *)

LnText == <<"a">>
LnBlank == <<>>
LnFence == <<BQ,BQ,BQ>>
LnTitleDoc == <<"[","T","i","t","l","e","]",":"," ","A">>
LnSectionDoc == <<"[","S","e","c","t","i","o","n","]",":"," ","t","i","t","l","e",":"," ","\"","S","\"">>
LnImpl == <<"T","h","i","s"," ","i","s"," ","t","h","e"," ","i","m","p","l","e","m","e","n","t","a","t","i","o","n"," ","i","n"," ","g","o">>
LnTitleRe == <<"t",":"," ","A">>
LnSectionRe == <<"n",":"," ","t","i","t","l","e",":"," ","\"","S","\"">>

Lexicon ==
    {LnText, LnBlank, LnFence, LnTitleDoc, LnSectionDoc, LnImpl, LnTitleRe, LnSectionRe}

\* the marker lines as documented: [Title]: ..., [Section]: title: "...", This is the implementation in ...
IsTitleMarker(line) == HasPrefix(line, <<"[","T","i","t","l","e","]",":">>)
IsSectionMarker(line) ==
    HasPrefix(line, <<"[","S","e","c","t","i","o","n","]",":"," ","t","i","t","l","e",":"," ","\"">>)
    /\ Len(line) >= 1 /\ line[Len(line)] = "\""
IsImplMarker(line) == HasPrefix(line, ImplPrefix)
IsMarker(line) == IsTitleMarker(line) \/ IsSectionMarker(line) \/ IsImplMarker(line)

Bodies == UNION {[1..n -> Lexicon] : n \in 0..MaxLines}

\* the body of the documented scenario
TestLineTitle == <<"[","T","i","t","l","e","]",":"," ","T","e","s","t"," ","S","k","i","l","l"," ","T","i","t","l","e">>
TestLineIntro == <<"T","h","i","s"," ","i","s"," ","t","h","e"," ","m","a","i","n"," ","b","o","d","y",".">>
TestLineSection == <<"[","S","e","c","t","i","o","n","]",":"," ","t","i","t","l","e",":"," ","\"","S","e","c","t","i","o","n"," ","1","\"">>
TestLineItem1 == <<"-"," ","I","t","e","m"," ","1">>
TestLineItem2 == <<"-"," ","I","t","e","m"," ","2">>
TestLineImpl == <<"T","h","i","s"," ","i","s"," ","t","h","e"," ","i","m","p","l","e","m","e","n","t","a","t","i","o","n"," ","i","n"," ","b","a","s","h">>
TestLineFenceOpen == <<BQ,BQ,BQ,"b","a","s","h">>
TestLineEcho == <<"e","c","h","o"," ","\"","H","e","l","l","o"," ","f","r","o","m"," ","b","a","s","h","\"">>

TestBody ==
    <<TestLineTitle, TestLineIntro, TestLineSection, TestLineItem1, TestLineItem2,
      TestLineImpl, TestLineFenceOpen, TestLineEcho, LnFence>>

TestExpected ==
    <<TitlePart(<<"T","e","s","t"," ","S","k","i","l","l"," ","T","i","t","l","e">>),
      MarkdownPart(TestLineIntro),
      SectionPart(<<"S","e","c","t","i","o","n"," ","1">>,
                  TestLineItem1 \o <<NL>> \o TestLineItem2),
      ImplementationPart(<<"b","a","s","h">>, TestLineEcho \o <<NL>>)>>

----------------------------------------------------------------------------
(* The state machine of parseMarkdownBody *)

St == [pos |-> pos, parts |-> parts, cur |-> currentContent,
       inCode |-> inCodeBlock, pc |-> pc]

Apply(n) ==
    /\ pos' = n.pos
    /\ parts' = n.parts
    /\ currentContent' = n.cur
    /\ inCodeBlock' = n.inCode
    /\ pc' = n.pc
    /\ UNCHANGED body
    /\ UNCHANGED pkgVars
    /\ UNCHANGED batchVars
    /\ UNCHANGED runVars
    /\ UNCHANGED pyVars

Scanning == pc = "scan" /\ pos <= Len(body)

Init ==
    /\ body \in Bodies \cup {TestBody}
    /\ pos = ScanStart.pos
    /\ parts = ScanStart.parts
    /\ currentContent = ScanStart.cur
    /\ inCodeBlock = ScanStart.inCode
    /\ pc = ScanStart.pc
    /\ PkgIdle
    /\ BatchIdle
    /\ RunIdle
    /\ PyIdle

TitleLine ==
    /\ Scanning
    /\ Branch(St, body[pos]) = "title"
    /\ Apply(TitleBranch(St, body[pos]))

SectionLine ==
    /\ Scanning
    /\ Branch(St, body[pos]) = "section"
    /\ Apply(SectionBranch(St, body[pos]))

ImplLine ==
    /\ Scanning
    /\ Branch(St, body[pos]) = "impl"
    /\ Apply(ImplBranch(body, St, body[pos]))

ContentLine ==
    /\ Scanning
    /\ Branch(St, body[pos]) = "content"
    /\ Apply(ContentBranch(St, body[pos]))

EndOfInput ==
    /\ pc = "scan"
    /\ pos > Len(body)
    /\ Apply(EndFlush(St))

Next == TitleLine \/ SectionLine \/ ImplLine \/ ContentLine \/ EndOfInput

Spec == Init /\ [][Next]_vars

----------------------------------------------------------------------------
(* Inputs of ParseSkillPackage: the bytes of SKILL.md *)

DocDash == <<"-","-","-">>
DocName == <<"n","a","m","e",":"," ","n">>
DocOpenSeq == <<"k",":"," ","[">>
DocInline == <<"v",":"," ","a","-","-","-","b">>

DocLexicon == {DocDash, DocName, DocOpenSeq, DocInline, LnText, LnImpl}

\* a file made of the given lines, each ended by a line break
DocOf(ls) == JoinLines(ls, 1, Len(ls))

DocsFree == {DocOf(ls) : ls \in UNION {[1..n -> DocLexicon] : n \in 0..MaxDocLines}}

\* the frontmatter line that sets field f
MetaValue(f) ==
    CASE f = "Name" -> <<"n">>
      [] f = "Description" -> <<"d">>
      [] f = "AllowedTools" -> <<"[","x",","," ","y","]">>
      [] f = "Model" -> <<"m">>
      [] f = "Author" -> <<"u">>
      [] f = "Version" -> <<"v">>
      [] f = "License" -> <<"l">>

MetaFieldOrder ==
    <<"Name", "Description", "AllowedTools", "Model", "Author", "Version", "License">>

DocKey(f) ==
    CASE f = "Name" -> <<"n","a","m","e">>
      [] f = "Description" -> <<"d","e","s","c","r","i","p","t","i","o","n">>
      [] f = "AllowedTools" -> <<"a","l","l","o","w","e","d","-","t","o","o","l","s">>
      [] f = "Model" -> <<"m","o","d","e","l">>
      [] f = "Author" -> <<"a","u","t","h","o","r">>
      [] f = "Version" -> <<"v","e","r","s","i","o","n">>
      [] f = "License" -> <<"l","i","c","e","n","s","e">>

RECURSIVE MetaLines(_, _)
MetaLines(K, i) ==
    IF i > Len(MetaFieldOrder) THEN <<>>
    ELSE (IF MetaFieldOrder[i] \in K
          THEN <<DocKey(MetaFieldOrder[i]) \o <<":", " ">> \o MetaValue(MetaFieldOrder[i])>>
          ELSE <<>>) \o MetaLines(K, i + 1)

\* a well-formed SKILL.md whose frontmatter sets exactly the fields in K
MetaBody == <<LnTitleRe, LnText, LnSectionRe, LnText>>
MetaDoc(K) == DocOf(<<DocDash>> \o MetaLines(K, 1) \o <<DocDash>> \o MetaBody)

DocsMeta == {MetaDoc(K) : K \in SUBSET MetaFields}

Docs == DocsFree \cup DocsMeta

\* what SKILL.md can be: missing, unreadable, or a file with some bytes
MdFiles ==
    {[status |-> "absent", data |-> <<>>], [status |-> "unreadable", data |-> <<>>]}
    \cup {[status |-> "ok", data |-> d] : d \in Docs}

----------------------------------------------------------------------------
(* The state machine of ParseSkillPackage.  Its call of parseMarkdownBody   *)
(* runs the actions of the scan above on the lines of bodyStr.              *)

Return(p, e) ==
    /\ stage' = "returned"
    /\ pkg' = p
    /\ err' = e

InitPkg ==
    /\ body = <<>>
    /\ pos = ScanStart.pos
    /\ parts = ScanStart.parts
    /\ currentContent = ScanStart.cur
    /\ inCodeBlock = ScanStart.inCode
    /\ pc = "idle"
    /\ stage = "stat"
    /\ dirKind = Unset
    /\ mdContent = NoMd
    /\ meta = ZeroMeta
    /\ bodyStr = <<>>
    /\ resEnv = NoResEnv
    /\ resFiles = NoResources
    /\ pkg = NoPkg
    /\ err = NoErr
    /\ ioLog = <<>>
    /\ BatchIdle
    /\ RunIdle
    /\ PyIdle

\* os.Stat(dirPath) without the info.IsDir() test
StatOutcomeNoDirTest(kind) ==
    IF kind = "absent" THEN ErrDirNotFound
    ELSE IF kind = "denied" THEN ErrStat
    ELSE NoErr

\* lines 236-245: os.Stat(dirPath) and the directory test: the error returned
StatOutcome(kind) ==
    IF kind = "absent" THEN ErrDirNotFound
    ELSE IF kind = "denied" THEN ErrStat
    ELSE IF kind # "dir" THEN ErrNotDir
    ELSE NoErr

StatDir ==
    /\ stage = "stat"
    /\ \E kind \in DirKinds :
          /\ dirKind' = kind
          /\ ioLog' = Append(ioLog, "stat dir")
          /\ IF StatOutcome(kind) # NoErr
             THEN Return(NoPkg, StatOutcome(kind))
             ELSE stage' = "read" /\ UNCHANGED <<pkg, err>>
    /\ UNCHANGED <<mdContent, meta, bodyStr, resEnv, resFiles>>
    /\ UNCHANGED scanVars
    /\ UNCHANGED batchVars
    /\ UNCHANGED runVars
    /\ UNCHANGED pyVars

\* os.ReadFile(SKILL.md) without the os.IsNotExist test
ReadOutcomeNoExistTest(status) ==
    IF status # "ok" THEN ErrReadSkillMd
    ELSE NoErr

\* lines 249-255: os.ReadFile(SKILL.md): the error returned
ReadOutcome(status) ==
    IF status = "absent" THEN ErrNoSkillMd
    ELSE IF status # "ok" THEN ErrReadSkillMd
    ELSE NoErr

\* lines 248-255: os.ReadFile(SKILL.md)
ReadSkillMd ==
    /\ stage = "read"
    /\ \E md \in MdFiles :
          /\ mdContent' = md
          /\ ioLog' = Append(ioLog, "read SKILL.md")
          /\ IF ReadOutcome(md.status) # NoErr
             THEN Return(NoPkg, ReadOutcome(md.status))
             ELSE stage' = "extract" /\ UNCHANGED <<pkg, err>>
    /\ UNCHANGED <<dirKind, meta, bodyStr, resEnv, resFiles>>
    /\ UNCHANGED scanVars
    /\ UNCHANGED batchVars
    /\ UNCHANGED runVars
    /\ UNCHANGED pyVars

\* extractFrontmatterAndBody and the call of parseMarkdownBody without the
\* return on the error
ExtractFrontmatterGoesOn ==
    /\ stage = "extract"
    /\ LET r == extractFrontmatterAndBody(mdContent.data)
       IN  /\ meta' = r.meta
           /\ bodyStr' = r.body
           /\ err' = r.err
           /\ stage' = "segment"
           /\ body' = ScanLines(r.body)
           /\ pos' = ScanStart.pos
           /\ parts' = ScanStart.parts
           /\ currentContent' = ScanStart.cur
           /\ inCodeBlock' = ScanStart.inCode
           /\ pc' = ScanStart.pc
           /\ UNCHANGED pkg
    /\ UNCHANGED <<dirKind, mdContent, resEnv, resFiles, ioLog>>
    /\ UNCHANGED batchVars
    /\ UNCHANGED runVars
    /\ UNCHANGED pyVars

\* lines 257-262: extractFrontmatterAndBody, then the call of parseMarkdownBody
ExtractFrontmatter ==
    /\ stage = "extract"
    /\ LET r == extractFrontmatterAndBody(mdContent.data)
       IN  IF r.err # NoErr
           THEN /\ Return(NoPkg, r.err)
                /\ UNCHANGED <<meta, bodyStr>>
                /\ UNCHANGED scanVars
           ELSE /\ meta' = r.meta
                /\ bodyStr' = r.body
                /\ stage' = "segment"
                /\ body' = ScanLines(r.body)
                /\ pos' = ScanStart.pos
                /\ parts' = ScanStart.parts
                /\ currentContent' = ScanStart.cur
                /\ inCodeBlock' = ScanStart.inCode
                /\ pc' = ScanStart.pc
                /\ UNCHANGED <<pkg, err>>
    /\ UNCHANGED <<dirKind, mdContent, resEnv, resFiles, ioLog>>
    /\ UNCHANGED batchVars
    /\ UNCHANGED runVars
    /\ UNCHANGED pyVars

\* lines 265-276: one call of findResourceFiles, for the category at `from`
ScanResources(from, cat, to) ==
    /\ stage = from
    /\ from = "segment" => pc = "done"
    /\ \E env \in ResEnvs :
          LET r == findResourceFiles(cat, env)
          IN  /\ resEnv' = [resEnv EXCEPT ![cat] = env]
              /\ ioLog' = Append(ioLog, cat)
              /\ IF r.err
                 THEN Return(NoPkg, ErrScan(cat)) /\ UNCHANGED resFiles
                 ELSE /\ resFiles' = [resFiles EXCEPT ![cat] = r.files]
                      /\ stage' = to
                      /\ UNCHANGED <<pkg, err>>
    /\ UNCHANGED <<dirKind, mdContent, meta, bodyStr>>
    /\ UNCHANGED scanVars
    /\ UNCHANGED batchVars
    /\ UNCHANGED runVars
    /\ UNCHANGED pyVars

ScanScripts == ScanResources("segment", "scripts", "references")
ScanReferences == ScanResources("references", "references", "assets")
ScanAssets == ScanResources("assets", "assets", "assemble")

\* lines 279-290
Assemble ==
    /\ stage = "assemble"
    /\ Return(<<[Path |-> "dirPath", Meta |-> meta, Body |-> parts, Resources |-> resFiles]>>,
              NoErr)
    /\ UNCHANGED <<dirKind, mdContent, meta, bodyStr, resEnv, resFiles, ioLog>>
    /\ UNCHANGED scanVars
    /\ UNCHANGED batchVars
    /\ UNCHANGED runVars
    /\ UNCHANGED pyVars

NextPkg ==
    \/ StatDir
    \/ ReadSkillMd
    \/ ExtractFrontmatter
    \/ TitleLine
    \/ SectionLine
    \/ ImplLine
    \/ ContentLine
    \/ EndOfInput
    \/ ScanScripts
    \/ ScanReferences
    \/ ScanAssets
    \/ Assemble

SpecPkg == InitPkg /\ [][NextPkg]_vars

----------------------------------------------------------------------------
(* ParseSkillPackage as one call, for the callers that loop over it *)

\* one iteration of the loop of parseMarkdownBody, or the flush after it
ScanStep(b, s) ==
    IF s.pos > Len(b) THEN EndFlush(s)
    ELSE LET line == b[s.pos]
         IN  CASE Branch(s, line) = "title" -> TitleBranch(s, line)
               [] Branch(s, line) = "section" -> SectionBranch(s, line)
               [] Branch(s, line) = "impl" -> ImplBranch(b, s, line)
               [] OTHER -> ContentBranch(s, line)

\* the scan run from state s until it returns or panics
RECURSIVE RunScan(_, _)
RunScan(b, s) == IF s.pc # "scan" THEN s ELSE RunScan(b, ScanStep(b, s))

\* parseMarkdownBody(body): the scan state at its end (pc, parts)
parseMarkdownBody(b) == RunScan(b, ScanStart)

\* ParseSkillPackage(dirPath) where dirPath holds d: [pkg, err, panic]
ParseSkillPackageOf(d) ==
    IF StatOutcome(d.dirKind) # NoErr
    THEN [pkg |-> NoPkg, err |-> StatOutcome(d.dirKind), panic |-> FALSE]
    ELSE IF ReadOutcome(d.md.status) # NoErr
    THEN [pkg |-> NoPkg, err |-> ReadOutcome(d.md.status), panic |-> FALSE]
    ELSE
    LET r == extractFrontmatterAndBody(d.md.data)
    IN  IF r.err # NoErr THEN [pkg |-> NoPkg, err |-> r.err, panic |-> FALSE]
        ELSE
        LET s == parseMarkdownBody(ScanLines(r.body))
            scripts == findResourceFiles("scripts", d.res["scripts"])
            references == findResourceFiles("references", d.res["references"])
            assets == findResourceFiles("assets", d.res["assets"])
        IN  IF s.pc = "panic" THEN [pkg |-> NoPkg, err |-> NoErr, panic |-> TRUE]
            ELSE IF scripts.err
            THEN [pkg |-> NoPkg, err |-> ErrScan("scripts"), panic |-> FALSE]
            ELSE IF references.err
            THEN [pkg |-> NoPkg, err |-> ErrScan("references"), panic |-> FALSE]
            ELSE IF assets.err
            THEN [pkg |-> NoPkg, err |-> ErrScan("assets"), panic |-> FALSE]
            ELSE [pkg |-> <<[Path |-> "dirPath", Meta |-> r.meta, Body |-> s.parts,
                            Resources |-> [c \in Categories |->
                                CASE c = "scripts" -> scripts.files
                                  [] c = "references" -> references.files
                                  [] c = "assets" -> assets.files]]>>,
                  err |-> NoErr, panic |-> FALSE]

----------------------------------------------------------------------------
(* Inputs of the batch operations: what the entries of skillsRoot hold *)

MaxEntries == 3

\* SKILL.md of a skill with the given name and description
SkillDoc(name, desc) ==
    DocOf(<<DocDash,
            DocKey("Name") \o <<":", " ">> \o name,
            DocKey("Description") \o <<":", " ">> \o desc,
            DocDash, LnText>>)

NoSubdirs == [c \in Categories |-> [kind |-> "absent", walk |-> <<>>]]

DirOf(md, res) == [isDir |-> TRUE, dirKind |-> "dir", md |-> md, res |-> res]
FileOf(data) == [status |-> "ok", data |-> data]

\* a regular file in skillsRoot
EntFile == [isDir |-> FALSE, dirKind |-> "file", md |-> NoMd, res |-> NoSubdirs]
\* a directory removed after os.ReadDir listed it
EntVanished == [isDir |-> TRUE, dirKind |-> "absent", md |-> NoMd, res |-> NoSubdirs]
EntNoSkillMd == DirOf([status |-> "absent", data |-> <<>>], NoSubdirs)
EntNoFrontmatter == DirOf(FileOf(DocOf(<<LnText>>)), NoSubdirs)
EntBadMeta == DirOf(FileOf(DocOf(<<DocDash, DocOpenSeq, DocDash>>)), NoSubdirs)
EntScanDenied ==
    DirOf(FileOf(SkillDoc(<<"x">>, <<"p">>)),
          [NoSubdirs EXCEPT !["scripts"] = [kind |-> "denied", walk |-> <<>>]])
EntPanics == DirOf(FileOf(DocOf(<<DocDash, DocDash, LnText, LnImpl>>)), NoSubdirs)
EntSkillX == DirOf(FileOf(SkillDoc(<<"x">>, <<"p">>)), NoSubdirs)
EntSkillY == DirOf(FileOf(SkillDoc(<<"Y">>, <<"q">>)), NoSubdirs)
\* a second directory whose SKILL.md also says name: x
EntSkillX2 == DirOf(FileOf(SkillDoc(<<"x">>, <<"r">>)), NoSubdirs)

SkillDirs ==
    {EntFile, EntVanished, EntNoSkillMd, EntNoFrontmatter, EntBadMeta, EntScanDenied,
     EntPanics, EntSkillX, EntSkillY, EntSkillX2}

\* os.ReadDir(skillsRoot): an error, or the entries sorted by file name (entry
\* i is the i-th name in that order)
Roots ==
    {[ok |-> FALSE, list |-> <<>>]}
    \cup {[ok |-> TRUE, list |-> l] : l \in UNION {[1..n -> SkillDirs] : n \in 0..MaxEntries}}

Cmds == {"list", "search", "run"}
Queries == {<<"Y">>, <<"q">>, <<>>}

\* strings.ToLower on the letters the inputs use
LowerChar(c) ==
    CASE c = "X" -> "x"
      [] c = "Y" -> "y"
      [] OTHER -> c
ToLower(s) == [i \in 1..Len(s) |-> LowerChar(s[i])]

\* strings.Contains
Contains(s, sub) == sub = <<>> \/ Index(s, sub) # 0

----------------------------------------------------------------------------
(* The batch operations: listCmd.RunE, searchCmd.RunE, and discoverSkills   *)
(* followed by selectSkill in runCmd.RunE                                   *)

ErrReadDir == "could not read skills directory"
ErrDiscover == "failed to discover skills"
ErrNoSkills == "no valid skills found"

\* a printed or prompted line
HeaderLine == [kind |-> "header", Name |-> <<>>, Description |-> <<>>]
NoneLine == [kind |-> "none", Name |-> <<>>, Description |-> <<>>]
SkillLine(name, desc) == [kind |-> "skill", Name |-> name, Description |-> desc]

\* skillPackage, err before the first call
NotParsed == [pkg |-> NoPkg, err |-> NoErr, panic |-> FALSE]

InitBatch ==
    /\ body = <<>>
    /\ pos = ScanStart.pos
    /\ parts = ScanStart.parts
    /\ currentContent = ScanStart.cur
    /\ inCodeBlock = ScanStart.inCode
    /\ pc = "idle"
    /\ PkgIdle
    /\ RunIdle
    /\ PyIdle
    /\ cmd \in Cmds
    /\ root \in Roots
    /\ entries = <<>>
    /\ idx = 0
    /\ query \in (IF cmd = "search" THEN {ToLower(q) : q \in Queries} ELSE {<<>>})
    /\ out = <<>>
    /\ skills = {}
    /\ prompt = <<>>
    /\ parsed = NotParsed
    /\ bErr = NoErr
    /\ bpc = "readdir"

BatchFrame ==
    /\ UNCHANGED scanVars /\ UNCHANGED pkgVars /\ UNCHANGED <<cmd, root, query>>
    /\ UNCHANGED runVars /\ UNCHANGED pyVars

\* os.ReadDir(skillsRoot) and the header line
ReadDirRoot ==
    /\ bpc = "readdir"
    /\ IF ~root.ok
       THEN /\ bErr' = (IF cmd = "run" THEN ErrDiscover ELSE ErrReadDir)
            /\ bpc' = "returned"
            /\ UNCHANGED <<entries, idx, out>>
       ELSE /\ entries' = root.list
            /\ idx' = 1
            /\ out' = (IF cmd = "run" THEN out ELSE Append(out, HeaderLine))
            /\ bpc' = "loop"
            /\ UNCHANGED bErr
    /\ UNCHANGED <<skills, prompt, parsed>>
    /\ BatchFrame

InLoop == bpc = "loop" /\ idx <= Len(entries)

\* what the loop body does with the error of ParseSkillPackage: "continue"
\* goes on with the next entry, "return" ends the batch with that error
OnParseError(e) == "continue"

\* if !entry.IsDir() { continue }
SkipEntry ==
    /\ InLoop
    /\ ~entries[idx].isDir
    /\ idx' = idx + 1
    /\ UNCHANGED <<entries, out, skills, prompt, parsed, bErr, bpc>>
    /\ BatchFrame

\* skillPackage, err := goskills.ParseSkillPackage(skillPath)
ParseEntry ==
    /\ InLoop
    /\ entries[idx].isDir
    /\ parsed' = ParseSkillPackageOf(entries[idx])
    /\ bpc' = (IF parsed'.panic THEN "panic" ELSE "parsed")
    /\ UNCHANGED <<entries, idx, out, skills, prompt, bErr>>
    /\ BatchFrame

\* if err != nil { continue }
ParseFails ==
    /\ bpc = "parsed"
    /\ parsed.err # NoErr
    /\ IF OnParseError(parsed.err) = "continue"
       THEN idx' = idx + 1 /\ bpc' = "loop" /\ UNCHANGED bErr
       ELSE bErr' = parsed.err /\ bpc' = "returned" /\ UNCHANGED idx
    /\ UNCHANGED <<entries, out, skills, prompt, parsed>>
    /\ BatchFrame

\* listCmd: print the skill
ListSkill ==
    /\ bpc = "parsed"
    /\ parsed.err = NoErr
    /\ cmd = "list"
    /\ out' = Append(out, SkillLine(parsed.pkg[1].Meta.Name, parsed.pkg[1].Meta.Description))
    /\ idx' = idx + 1
    /\ bpc' = "loop"
    /\ UNCHANGED <<entries, skills, prompt, parsed, bErr>>
    /\ BatchFrame

\* the test on name and description without strings.ToLower
MatchesCaseSensitive(m, q) == Contains(m.Name, q) \/ Contains(m.Description, q)

\* the test of searchCmd on name and description
Matches(m, q) == Contains(ToLower(m.Name), q) \/ Contains(ToLower(m.Description), q)

\* searchCmd: print the skill when it matches the query
SearchSkill ==
    /\ bpc = "parsed"
    /\ parsed.err = NoErr
    /\ cmd = "search"
    /\ out' = (IF Matches(parsed.pkg[1].Meta, query)
               THEN Append(out, SkillLine(parsed.pkg[1].Meta.Name,
                                          parsed.pkg[1].Meta.Description))
               ELSE out)
    /\ idx' = idx + 1
    /\ bpc' = "loop"
    /\ UNCHANGED <<entries, skills, prompt, parsed, bErr>>
    /\ BatchFrame

\* skills[name] = v on a map held as the set of its key-value pairs
MapPut(m, name, v) == {p \in m : p.Name # name} \cup {v}

\* discoverSkills: skills[skillPackage.Meta.Name] = *skillPackage
StoreSkill ==
    /\ bpc = "parsed"
    /\ parsed.err = NoErr
    /\ cmd = "run"
    /\ skills' = MapPut(skills, parsed.pkg[1].Meta.Name,
                        [Name |-> parsed.pkg[1].Meta.Name,
                         Description |-> parsed.pkg[1].Meta.Description,
                         Body |-> parsed.pkg[1].Body,
                         dir |-> idx])
    /\ idx' = idx + 1
    /\ bpc' = "loop"
    /\ UNCHANGED <<entries, out, prompt, parsed, bErr>>
    /\ BatchFrame

\* listCmd and searchCmd after the loop
EndPrint ==
    /\ bpc = "loop"
    /\ idx > Len(entries)
    /\ cmd \in {"list", "search"}
    /\ out' = (IF \E i \in 1..Len(out) : out[i].kind = "skill" THEN out
               ELSE Append(out, NoneLine))
    /\ bpc' = "returned"
    /\ UNCHANGED <<entries, idx, skills, prompt, bErr, parsed>>
    /\ BatchFrame

\* discoverSkills returns; runCmd tests len(availableSkills)
EndDiscover ==
    /\ bpc = "loop"
    /\ idx > Len(entries)
    /\ cmd = "run"
    /\ IF skills = {}
       THEN bErr' = ErrNoSkills /\ bpc' = "returned"
       ELSE bpc' = "select" /\ UNCHANGED bErr
    /\ UNCHANGED <<entries, idx, out, skills, prompt, parsed>>
    /\ BatchFrame

\* the orders in which `for name, skill := range skills` can visit the map
RangeOrders(m) ==
    {f \in [1..Cardinality(m) -> m] : \A i, j \in 1..Cardinality(m) : f[i] = f[j] => i = j}

\* selectSkill: the "Available Skills" lines of the prompt
SelectSkill ==
    /\ bpc = "select"
    /\ \E order \in RangeOrders(skills) :
          prompt' = [i \in 1..Len(order) |-> SkillLine(order[i].Name, order[i].Description)]
    /\ bpc' = "returned"
    /\ UNCHANGED <<entries, idx, out, skills, bErr, parsed>>
    /\ BatchFrame

NextBatch ==
    \/ ReadDirRoot
    \/ SkipEntry
    \/ ParseEntry
    \/ ParseFails
    \/ ListSkill
    \/ SearchSkill
    \/ StoreSkill
    \/ EndPrint
    \/ EndDiscover
    \/ SelectSkill

SpecBatch == InitBatch /\ [][NextBatch]_vars

----------------------------------------------------------------------------
(* Properties of parseMarkdownBody *)

Finished == pc \in {"done", "panic"}

\* C1: the documented scenario (Title line, intro, Section line, list text,
\* Implementation line and its fenced block) yields exactly the four segments
\* Title, Markdown, Section (content = the list text) and Implementation.
C1_TestScenario ==
    (body = TestBody /\ Finished) => (pc = "done" /\ parts = TestExpected)

\* C2: parseMarkdownBody is total: no body makes it panic.
C2_Total == pc # "panic"

\* the title of a documented Section marker line: the text between the quotes
DocSectionPrefix == <<"[","S","e","c","t","i","o","n","]",":"," ","t","i","t","l","e",":"," ","\"">>
DocSectionTitle(line) == SubSeq(line, Len(DocSectionPrefix) + 1, Len(line) - 1)

\* index of the first marker line after line i, Len(b) + 1 when there is none
NextMarker(b, i) ==
    SetMin({j \in (i + 1)..(Len(b) + 1) : j = Len(b) + 1 \/ IsMarker(b[j])})

NoFenceIn(b) == \A i \in 1..Len(b) : ~HasPrefix(b[i], Fence)

\* C3: in a returned result, every Section marker line of a body without
\* fences has a Section segment whose content is the trimmed text between
\* the marker and the next marker line (or the end of the input).
C3_SectionBackfill ==
    (pc = "done" /\ NoFenceIn(body)) =>
        \A i \in 1..Len(body) :
            IsSectionMarker(body[i]) =>
                \E k \in 1..Len(parts) :
                    parts[k] = SectionPart(DocSectionTitle(body[i]),
                                           TrimSpace(JoinLines(body, i + 1, NextMarker(body, i) - 1)))

\* a line that has the documented form of a marker or that one of the three
\* regular expressions matches
LooksLikeMarker(line) ==
    \/ IsMarker(line)
    \/ Len(titleRegex(line)) > 1
    \/ Len(sectionRegex(line)) > 1
    \/ Len(implRegex(line)) > 1

\* C4: while the open-fence flag is set, a marker line read by the scan adds
\* no segment; it is appended to the buffer, followed by its line break.
C4_FenceSuppression ==
    [][(Scanning /\ inCodeBlock /\ LooksLikeMarker(body[pos])) =>
          (parts' = parts /\ currentContent' = currentContent \o body[pos] \o <<NL>>)]_vars

C4_Witness ==
    /\ Len(body) >= 2
    /\ body[1] = LnFence
    /\ body[2] = LnTitleRe
    /\ pos = 3
    /\ inCodeBlock
    /\ parts = <<>>
    /\ currentContent = LnFence \o <<NL>> \o LnTitleRe \o <<NL>>

\* no line of the text s begins with the fence token
NoFenceLine(s) ==
    \A k \in 1..Len(s) : (k = 1 \/ s[k - 1] = NL) => ~HasPrefixAt(s, k, Fence)

\* C5: the code of every Implementation segment holds no line that begins
\* with three backticks.
C5_CodeExcludesFences ==
    \A k \in 1..Len(parts) :
        parts[k].type = "Implementation" => NoFenceLine(parts[k].Code)

C5_Witness ==
    /\ pc = "done"
    /\ body = <<LnImpl, LnFence, LnText, LnFence>>
    /\ parts = <<ImplementationPart(<<"g","o">>, LnText \o <<NL>>)>>

----------------------------------------------------------------------------
(* Properties of extractFrontmatterAndBody and ParseSkillPackage *)

\* the frontmatter delimiter lines of a file: the indices of its lines that
\* consist solely of three dashes
DelimiterLines(data) ==
    {i \in 1..Len(ScanLines(data)) : ScanLines(data)[i] = <<"-","-","-">>}

FirstDelimiter(data) == SetMin(DelimiterLines(data))
SecondDelimiter(data) == SetMin(DelimiterLines(data) \ {FirstDelimiter(data)})

\* the text between the first two delimiter lines, and the text after them
BlockBetween(data) ==
    JoinLines(ScanLines(data), FirstDelimiter(data) + 1, SecondDelimiter(data) - 1)
TextAfter(data) ==
    JoinLines(ScanLines(data), SecondDelimiter(data) + 1, Len(ScanLines(data)))

\* the file was read and extractFrontmatterAndBody has returned
Extracted == mdContent.status = "ok" /\ stage \notin {"stat", "read", "extract"}

\* C6: a file with zero or one delimiter line makes ParseSkillPackage fail
\* with the missing-frontmatter error, whatever else it holds, and no
\* package is returned.
C6_MissingFrontmatter ==
    (Extracted /\ Cardinality(DelimiterLines(mdContent.data)) <= 1) =>
        (stage = "returned" /\ err = ErrNoFrontmatter /\ pkg = NoPkg)

\* C7: a file with at least two delimiter lines is split at the first two of
\* them only: it never fails as missing frontmatter, the metadata is decoded
\* from the text between them, and the body is the trimmed text after the
\* second.
C7_SplitAtDelimiterLines ==
    (Extracted /\ Cardinality(DelimiterLines(mdContent.data)) >= 2) =>
        /\ err # ErrNoFrontmatter
        /\ err = ErrBadFrontmatter <=> Unmarshal(BlockBetween(mdContent.data)).err
        /\ err # ErrBadFrontmatter =>
              /\ meta = Unmarshal(BlockBetween(mdContent.data)).meta
              /\ bodyStr = TrimSpace(TextAfter(mdContent.data))

\* C8: a file with two delimiter lines whose frontmatter block is malformed
\* makes ParseSkillPackage fail with the invalid-frontmatter error, and no
\* package is returned.
C8_InvalidFrontmatter ==
    (/\ Extracted
     /\ Cardinality(DelimiterLines(mdContent.data)) = 2
     /\ Unmarshal(BlockBetween(mdContent.data)).err) =>
        (stage = "returned" /\ err = ErrBadFrontmatter /\ pkg = NoPkg)

\* the value field f must hold when the frontmatter sets it as MetaValue(f)
ExpectedField(f) ==
    IF f = "AllowedTools" THEN <<(<<"x">>), (<<"y">>)>> ELSE MetaValue(f)

\* C9: decoding a frontmatter that sets exactly the keys of the fields in K
\* succeeds for every K; each of these fields holds its value (allowed-tools
\* in the order written) and every other field is empty.
C9_MetadataDecoding ==
    Extracted =>
        LET ls == ScanLines(mdContent.data)
            K == {f \in MetaFields :
                     \E i \in 1..Len(ls) : ls[i] = DocKey(f) \o <<":", " ">> \o MetaValue(f)}
        IN  mdContent.data = MetaDoc(K) =>
                /\ err \notin {ErrNoFrontmatter, ErrBadFrontmatter}
                /\ meta = [f \in MetaFields |-> IF f \in K THEN ExpectedField(f) ELSE <<>>]

C9_Witness ==
    /\ stage = "returned"
    /\ err = NoErr
    /\ mdContent.data = MetaDoc({"Description", "AllowedTools"})
    /\ Len(pkg) = 1
    /\ pkg[1].Meta.Name = <<>>
    /\ pkg[1].Meta.Description = <<"d">>
    /\ pkg[1].Meta.AllowedTools = <<(<<"x">>), (<<"y">>)>>

\* C10: on a path that does not exist or is no directory ParseSkillPackage
\* returns the directory error and no package, having made no file-system
\* call but the os.Stat of the path.
C10_MissingDirectory ==
    dirKind \in {"absent", "file"} =>
        /\ stage = "returned"
        /\ pkg = NoPkg
        /\ err = (IF dirKind = "absent" THEN ErrDirNotFound ELSE ErrNotDir)
        /\ ioLog = <<"stat dir">>

C10_Witness ==
    /\ dirKind = "file"
    /\ stage = "returned"
    /\ pkg = NoPkg
    /\ err = ErrNotDir
    /\ ioLog = <<"stat dir">>

----------------------------------------------------------------------------
\* C11: when the directory exists and os.ReadFile reports that SKILL.md does
\* not exist, ParseSkillPackage returns nil and the error "SKILL.md not found
\* in skill directory", which is neither the error of a missing directory nor
\* the error of a failed read.
C11_MissingDefinitionFile ==
    mdContent.status = "absent" =>
        /\ dirKind = "dir"
        /\ stage = "returned"
        /\ pkg = NoPkg
        /\ err = ErrNoSkillMd
        /\ err \notin {ErrDirNotFound, ErrNotDir, ErrStat, ErrReadSkillMd}
        /\ ioLog = <<"stat dir", "read SKILL.md">>

C11_Witness ==
    /\ dirKind = "dir"
    /\ mdContent.status = "absent"
    /\ stage = "returned"
    /\ err = ErrNoSkillMd

----------------------------------------------------------------------------
\* the call of ParseSkillPackage is over: it has returned, or the goroutine
\* has panicked inside parseMarkdownBody
PkgEnded == stage = "returned" \/ (stage = "segment" /\ pc = "panic")

\* C12: every run of ParseSkillPackage ends by returning either a package and
\* a nil error, or a nil package and an error; a run in which a stage failed
\* returns the nil package.
C12_AllOrNothing ==
    PkgEnded =>
        /\ stage = "returned"
        /\ \/ pkg # NoPkg /\ err = NoErr
           \/ pkg = NoPkg /\ err # NoErr

----------------------------------------------------------------------------
\* the places of the path p in the list fs
Places(fs, p) == {j \in 1..Len(fs) : fs[j] = p}

\* C13: after findResourceFiles has walked a category, every entry under it
\* that is not a directory is listed exactly once, as the category name
\* followed by its path below the category; no directory is listed, and
\* nothing else is.  The package returned carries these lists.
C13_ResourceDiscovery ==
    \A cat \in Categories :
        resEnv[cat].kind \in {"file", "dir"} =>
            LET walk == resEnv[cat].walk
                fs == resFiles[cat]
            IN  /\ \A i \in 1..Len(walk) :
                      Cardinality(Places(fs, <<cat>> \o walk[i].rel))
                          = (IF walk[i].isDir THEN 0 ELSE 1)
                /\ \A j \in 1..Len(fs) :
                      \E i \in 1..Len(walk) :
                          ~walk[i].isDir /\ fs[j] = <<cat>> \o walk[i].rel
                /\ pkg # NoPkg => pkg[1].Resources[cat] = fs

C13_Witness ==
    /\ stage = "returned"
    /\ pkg # NoPkg
    /\ resEnv["scripts"].walk = WalkTree
    /\ pkg[1].Resources["scripts"] = <<(<<"scripts", "f">>), (<<"scripts", "sub", "g">>)>>

----------------------------------------------------------------------------
\* C14: a category directory that does not exist gives an empty list and no
\* error: a run does not return an error right after the scan of that
\* category, no run returns the scan error of that category, the package
\* returned has the category empty, and a run with all three categories
\* missing returns a package.
C14_OptionalResources ==
    /\ \A cat \in Categories :
          resEnv[cat].kind = "absent" =>
              /\ resFiles[cat] = <<>>
              /\ err # ErrScan(cat)
              /\ (ioLog[Len(ioLog)] = cat /\ stage = "returned") => pkg # NoPkg
              /\ pkg # NoPkg => pkg[1].Resources[cat] = <<>>
    /\ (stage = "returned" /\ \A cat \in Categories : resEnv[cat].kind = "absent") =>
          /\ pkg # NoPkg
          /\ err = NoErr

C14_Witness ==
    /\ stage = "returned"
    /\ pkg # NoPkg
    /\ err = NoErr
    /\ resEnv["references"].kind = "absent"
    /\ resEnv["scripts"].walk = WalkTree
    /\ pkg[1].Resources["references"] = <<>>

----------------------------------------------------------------------------
(* Properties of the batch operations *)

\* the errors of ParseSkillPackage that say the path is not a skill package
NotAPackage == {ErrDirNotFound, ErrNotDir, ErrNoSkillMd}

\* C15: the loop goes on to the next entry after a failed parse only when the
\* error is that of a missing directory or a missing SKILL.md; after any
\* other error of ParseSkillPackage the batch operation has returned that
\* error.
C15_BatchErrorPolicy ==
    /\ (bpc = "loop" /\ parsed.err # NoErr) => parsed.err \in NotAPackage
    /\ (bpc \in {"select", "returned"} /\ parsed.err \notin NotAPackage \cup {NoErr}) =>
           bErr = parsed.err

\* the skill lines among the printed lines
RECURSIVE SkillLines(_, _)
SkillLines(ls, i) ==
    IF i > Len(ls) THEN <<>>
    ELSE (IF ls[i].kind = "skill" THEN <<ls[i]>> ELSE <<>>) \o SkillLines(ls, i + 1)

\* the lines of the skills found in entries i..n, in the order of their
\* directory names
RECURSIVE LinesInDirOrder(_, _)
LinesInDirOrder(i, n) ==
    IF i > n THEN <<>>
    ELSE LET r == IF entries[i].isDir THEN ParseSkillPackageOf(entries[i]) ELSE NotParsed
         IN  (IF r.pkg # NoPkg /\ (cmd = "search" => Matches(r.pkg[1].Meta, query))
              THEN <<SkillLine(r.pkg[1].Meta.Name, r.pkg[1].Meta.Description)>>
              ELSE <<>>) \o LinesInDirOrder(i + 1, n)

\* the directory the map entry of the given name came from
DirOfName(name) == (CHOOSE p \in skills : p.Name = name).dir

\* C16: the results come in the order of the directory names: the skills
\* printed by list and search are those of the entries visited, in entry
\* order, and the skill lines of the selection prompt follow the order of the
\* directories the skills were found in.
C16_DeterministicOrder ==
    /\ (cmd \in {"list", "search"} /\ bpc \in {"loop", "returned"} /\ root.ok) =>
           SkillLines(out, 1) = LinesInDirOrder(1, idx - 1)
    /\ (cmd = "run" /\ bpc = "returned" /\ bErr = NoErr) =>
           \A i, j \in 1..Len(prompt) :
               i < j => DirOfName(prompt[i].Name) < DirOfName(prompt[j].Name)

----------------------------------------------------------------------------
\* C18: a body none of whose lines is a marker line ([Title]: ..., [Section]:
\* title: "...", This is the implementation in ...) yields, when the scan
\* returns, no segment if it is empty and otherwise the single Markdown
\* segment holding the whole body, trimmed.
C18_PureProse ==
    (Finished /\ \A i \in 1..Len(body) : ~IsMarker(body[i])) =>
        /\ pc = "done"
        /\ parts = (IF body = <<>> THEN <<>>
                    ELSE <<MarkdownPart(TrimSpace(JoinLines(body, 1, Len(body))))>>)

----------------------------------------------------------------------------
\* segment q is segment p with nothing but the content of an empty Section set
Backfilled(p, q) ==
    /\ p.type = "Section"
    /\ p.Content = <<>>
    /\ q = [p EXCEPT !.Content = q.Content]

\* the segment can have begun at the line: the marker line that gives its
\* title, text or language, or a line its content begins with
StartsAt(p, line) ==
    CASE p.type = "Title" ->
             Len(titleRegex(line)) > 1 /\ titleRegex(line)[2] = p.Text
      [] p.type = "Section" ->
             Len(sectionRegex(line)) > 1 /\ sectionRegex(line)[2] = p.Title
      [] p.type = "Implementation" ->
             Len(implRegex(line)) > 1 /\ implRegex(line)[2] = p.Language
      [] p.type = "Markdown" -> HasPrefix(p.Content, TrimSpace(line))

\* segments k.. of ps begin at lines of b taken in increasing order from j on
RECURSIVE InBodyOrder(_, _, _, _)
InBodyOrder(b, ps, k, j) ==
    \/ k > Len(ps)
    \/ \E i \in j..Len(b) : StartsAt(ps[k], b[i]) /\ InBodyOrder(b, ps, k + 1, i + 1)

\* one step of the scan keeps every segment it found where it was and as it
\* was, but for the content of a last segment that is an empty Section
StepAppends ==
    /\ Len(parts') >= Len(parts)
    /\ \A k \in 1..Len(parts) :
          \/ parts'[k] = parts[k]
          \/ k = Len(parts) /\ Backfilled(parts[k], parts'[k])
    /\ pos' > pos \/ pc' # "scan"

\* C19: the segment list is append-only and in body order: every step of the
\* scan leaves the segments already emitted at their positions with their
\* kinds, titles, languages and code, appends at the end or sets the content
\* of a last, empty Section, and reads forward in the body; the segments
\* returned begin at lines of the body in increasing order.
C19_AppendOnly ==
    /\ [][pc = "scan" => StepAppends]_vars
    /\ [](pc = "done" => InBodyOrder(body, parts, 1, 1))

C19_Witness ==
    /\ pc = "done"
    /\ Len(parts) >= 3
    /\ \E k \in 1..Len(parts) : parts[k].type = "Section" /\ parts[k].Content # <<>>
    /\ \E k \in 1..Len(parts) : parts[k].type = "Markdown"

----------------------------------------------------------------------------
\* the file-system calls of a run that fails at no stage, in order
StageOrder == <<"stat dir", "read SKILL.md", "scripts", "references", "assets">>

IsPrefix(s, t) == Len(s) <= Len(t) /\ s = SubSeq(t, 1, Len(s))

\* the error of the first stage that fails on what the run has found
FirstFailure ==
    IF StatOutcome(dirKind) # NoErr THEN StatOutcome(dirKind)
    ELSE IF ReadOutcome(mdContent.status) # NoErr THEN ReadOutcome(mdContent.status)
    ELSE IF extractFrontmatterAndBody(mdContent.data).err # NoErr
    THEN extractFrontmatterAndBody(mdContent.data).err
    ELSE IF findResourceFiles("scripts", resEnv["scripts"]).err THEN ErrScan("scripts")
    ELSE IF findResourceFiles("references", resEnv["references"]).err
    THEN ErrScan("references")
    ELSE IF findResourceFiles("assets", resEnv["assets"]).err THEN ErrScan("assets")
    ELSE NoErr

\* the calls made when the run returns the error e
CallsBefore(e) ==
    CASE e \in {ErrDirNotFound, ErrStat, ErrNotDir} -> SubSeq(StageOrder, 1, 1)
      [] e \in {ErrNoSkillMd, ErrReadSkillMd, ErrNoFrontmatter, ErrBadFrontmatter} ->
             SubSeq(StageOrder, 1, 2)
      [] e = ErrScan("scripts") -> SubSeq(StageOrder, 1, 3)
      [] e = ErrScan("references") -> SubSeq(StageOrder, 1, 4)
      [] OTHER -> StageOrder

\* C20: the stages run in the fixed order directory check, SKILL.md read,
\* frontmatter split and metadata decode, scripts, references, assets; the
\* error of a run is that of the first stage that fails, and the run has
\* made no call of a later stage: nothing has been read or scanned after a
\* failed directory check, and no resource directory has been scanned after
\* a failed read, a missing frontmatter or malformed metadata.
C20_FailFast ==
    /\ IsPrefix(ioLog, StageOrder)
    /\ err # NoErr =>
          /\ stage = "returned"
          /\ pkg = NoPkg
          /\ err = FirstFailure
          /\ ioLog = CallsBefore(err)
          /\ \A cat \in Categories : cat \notin {ioLog[i] : i \in 1..Len(ioLog)} =>
                 resEnv[cat] = Unseen /\ resFiles[cat] = <<>>
          /\ Len(ioLog) < 2 => mdContent = NoMd
          /\ Len(ioLog) < 3 => pc = "idle"
    /\ (stage = "returned" /\ err = NoErr) => (ioLog = StageOrder /\ FirstFailure = NoErr)

C20_Witness ==
    /\ stage = "returned"
    /\ dirKind = "dir"
    /\ mdContent.status = "ok"
    /\ err = ErrBadFrontmatter
    /\ ioLog = <<"stat dir", "read SKILL.md">>
    /\ resEnv = NoResEnv

----------------------------------------------------------------------------
(* The JSON form of a package: json.MarshalIndent in parseCmd.RunE *)

\* encoding/json on one element of Body: the object of the exported fields of
\* the struct held by the interface value, under their Go names (the part
\* types declare no json tags and no MarshalJSON)
MarshalPart(p) ==
    CASE p.type = "Title" -> [Text |-> p.Text]
      [] p.type = "Section" -> [Title |-> p.Title, Content |-> p.Content]
      [] p.type = "Markdown" -> [Content |-> p.Content]
      [] p.type = "Implementation" -> [Language |-> p.Language, Code |-> p.Code]

\* the "body" array of the JSON form
MarshalBody(ps) == [k \in 1..Len(ps) |-> MarshalPart(ps[k])]

\* C21: in the JSON form of a returned package, body lists the segments in
\* order and every element has a "type" member that names its variant,
\* next to the fields of the variant.
C21_TypedBody ==
    (stage = "returned" /\ pkg # NoPkg) =>
        LET js == MarshalBody(pkg[1].Body)
        IN  /\ Len(js) = Len(parts)
            /\ \A k \in 1..Len(js) :
                  /\ "type" \in DOMAIN js[k]
                  /\ js[k]["type"] = parts[k].type
                  /\ \A f \in DOMAIN parts[k] : f # "type" => js[k][f] = parts[k][f]

----------------------------------------------------------------------------
\* q occurs in s as a substring
IsSubstring(q, s) == \E i \in 0..(Len(s) - Len(q)) : SubSeq(s, i + 1, i + Len(q)) = q

\* s in lower case, for the letters of the inputs
Lowered(s) == [i \in 1..Len(s) |-> IF s[i] = "X" THEN "x" ELSE IF s[i] = "Y" THEN "y" ELSE s[i]]

\* the entry is a directory that parses and whose name or description, in
\* lower case, contains the query
Listed(e) ==
    /\ e.isDir
    /\ ParseSkillPackageOf(e).pkg # NoPkg
    /\ LET m == ParseSkillPackageOf(e).pkg[1].Meta
       IN  IsSubstring(query, Lowered(m.Name)) \/ IsSubstring(query, Lowered(m.Description))

\* the lines search owes for entries i..n
RECURSIVE SearchLines(_, _)
SearchLines(i, n) ==
    IF i > n THEN <<>>
    ELSE (IF Listed(entries[i])
          THEN LET m == ParseSkillPackageOf(entries[i]).pkg[1].Meta
               IN  <<SkillLine(m.Name, m.Description)>>
          ELSE <<>>) \o SearchLines(i + 1, n)

\* C22: when search returns after reading the root, it has printed one line
\* for each entry that is a directory, parses, and has the lower-cased query
\* as a substring of its lower-cased name or description, and for no other;
\* it has printed "No matching skills found." exactly when it listed no skill.
C22_SearchListing ==
    (cmd = "search" /\ bpc = "returned" /\ root.ok) =>
        /\ query = Lowered(query)
        /\ SkillLines(out, 1) = SearchLines(1, Len(entries))
        /\ (NoneLine \in {out[i] : i \in 1..Len(out)}) <=> (SkillLines(out, 1) = <<>>)
        /\ bErr = NoErr

C22_Witness ==
    /\ cmd = "search"
    /\ bpc = "returned"
    /\ query = <<"y">>
    /\ \E i \in 1..Len(entries) : entries[i] = EntSkillX
    /\ \E i \in 1..Len(entries) : entries[i] = EntNoFrontmatter
    /\ SkillLines(out, 1) = <<SkillLine(<<"Y">>, <<"q">>)>>

----------------------------------------------------------------------------
(* Properties of the steps of parseMarkdownBody *)

\* the text of a documented Title marker line: what follows "[Title]:",
\* without the blanks in front
DocTitleText(line) == SubSeq(line, SkipSpace(line, 9), Len(line))

\* the segment list once a non-empty buffer has been flushed as Markdown
WithFlush(ps, cur) ==
    IF cur # <<>> THEN Append(ps, MarkdownPart(TrimSpace(cur))) ELSE ps

\* the step appends to the flushed list exactly the segment p and empties
\* the buffer
FlushesThenAppends(p) ==
    /\ parts' = Append(WithFlush(parts, currentContent), p)
    /\ currentContent' = <<>>

\* C23: with the fence closed, the step that reads a Title or Section marker
\* line flushes a non-empty buffer as a Markdown segment, appends right
\* after it the Title segment with the marker's text, or the Section segment
\* with the marker's title and empty content, and leaves the buffer empty,
\* whatever the last segment was.
C23_MarkerFlush ==
    [][(Scanning /\ ~inCodeBlock) =>
          /\ IsTitleMarker(body[pos]) =>
                 FlushesThenAppends(TitlePart(DocTitleText(body[pos])))
          /\ IsSectionMarker(body[pos]) =>
                 FlushesThenAppends(SectionPart(DocSectionTitle(body[pos]), <<>>))]_vars

\* the last segment is a Section whose content is still empty
OpenSection(ps) ==
    Len(ps) > 0 /\ ps[Len(ps)].type = "Section" /\ ps[Len(ps)].Content = <<>>

\* the segment list once the buffer has gone to the open Section, or else
\* has been flushed as Markdown when it is not empty
WithBackfill(ps, cur) ==
    IF OpenSection(ps)
    THEN (IF cur # <<>> THEN [ps EXCEPT ![Len(ps)].Content = TrimSpace(cur)] ELSE ps)
    ELSE WithFlush(ps, cur)

\* the language of an Implementation marker line
DocLanguage(line) == SubSeq(line, Len(ImplPrefix) + 1, Len(line))

\* C24: with the fence closed, the step that reads an Implementation marker
\* line gives the buffered text to a preceding Section with empty content,
\* and otherwise flushes a non-empty buffer as a Markdown segment; it then
\* appends an Implementation segment with the marker's language and leaves
\* the buffer empty.
C24_ImplementationFlush ==
    [][(Scanning /\ ~inCodeBlock /\ IsImplMarker(body[pos])) =>
          /\ pc' # "panic"
          /\ currentContent' = <<>>
          /\ Len(parts') = Len(WithBackfill(parts, currentContent)) + 1
          /\ SubSeq(parts', 1, Len(parts') - 1) = WithBackfill(parts, currentContent)
          /\ parts'[Len(parts')].type = "Implementation"
          /\ parts'[Len(parts')].Language = DocLanguage(body[pos])]_vars

\* C25: at the end of the input with a non-empty buffer, the buffer, trimmed,
\* becomes the content of a last Section whose content is empty and the
\* number of segments stays the same; with any other last segment, or with
\* none, exactly one Markdown segment holding it is appended.
C25_EndFlush ==
    [][(pc = "scan" /\ pos > Len(body) /\ currentContent # <<>>) =>
          /\ pc' = "done"
          /\ IF OpenSection(parts)
             THEN /\ Len(parts') = Len(parts)
                  /\ parts' = [parts EXCEPT ![Len(parts)].Content = TrimSpace(currentContent)]
             ELSE parts' = Append(parts, MarkdownPart(TrimSpace(currentContent)))]_vars

C25_Witness ==
    /\ pc = "done"
    /\ Len(body) = 3
    /\ body[1] = LnText
    /\ body[2] = LnSectionRe
    /\ body[3] = LnText
    /\ parts = <<MarkdownPart(<<"a">>), SectionPart(<<"S">>, <<"a">>)>>

\* the number of lines beginning with the fence token that the main loop has
\* read when the scan, run from state s, is about to read line upto
RECURSIVE FencesRead(_, _, _)
FencesRead(b, s, upto) ==
    IF s.pc # "scan" \/ s.pos >= upto \/ s.pos > Len(b) THEN 0
    ELSE (IF HasPrefix(b[s.pos], Fence) THEN 1 ELSE 0) + FencesRead(b, ScanStep(b, s), upto)

\* the step adds no segment and appends the line it reads to the buffer
BuffersLine ==
    /\ parts' = parts
    /\ currentContent' = currentContent \o body[pos] \o <<NL>>

\* C26: a line beginning with three backticks read by the main loop toggles
\* the open-fence flag and adds no segment, and no other line changes the
\* flag, so the flag is set exactly after an odd number of such lines; while
\* it is set, a marker line is buffered as content.
C26_FenceToggle ==
    /\ [][Scanning =>
            /\ HasPrefix(body[pos], Fence) => (inCodeBlock' = ~inCodeBlock /\ BuffersLine)
            /\ ~HasPrefix(body[pos], Fence) => inCodeBlock' = inCodeBlock
            /\ (inCodeBlock /\ ~HasPrefix(body[pos], Fence) /\ LooksLikeMarker(body[pos])) =>
                   BuffersLine]_vars
    /\ [](pc = "scan" => (inCodeBlock <=> FencesRead(body, ScanStart, pos) % 2 = 1))

C26_Witness ==
    /\ body = <<LnFence, LnSectionRe, LnImpl, LnFence>>
    /\ pos = 5
    /\ pc = "scan"
    /\ ~inCodeBlock
    /\ parts = <<>>
    /\ currentContent = JoinLines(body, 1, 4)

\* the contents written by the step, to a new Markdown segment or to a
\* segment that was there, are the buffer with its ends trimmed
WritesTrimmedBuffer ==
    \A k \in 1..Len(parts') :
        (IF k > Len(parts) THEN parts'[k].type = "Markdown" ELSE parts'[k] # parts[k]) =>
            parts'[k].Content = TrimSpace(currentContent)

\* C27: a line read by the main loop that is not a marker line is appended
\* to the buffer as it is, followed by its line break, blank lines as well;
\* the content a step gives to a Markdown or Section segment is the buffer
\* with only its leading and trailing whitespace removed.
C27_BufferedContent ==
    [][pc = "scan" =>
          /\ (Scanning /\ ~IsMarker(body[pos])) => BuffersLine
          /\ WritesTrimmedBuffer]_vars

\* the lines from the second line after the marker at line m that begin with
\* three backticks
ClosingFences(b, m) == {j \in (m + 2)..Len(b) : HasPrefix(b[j], Fence)}

\* the line that ends the code of the marker at line m: the first such
\* line, or the end of the input
CodeEnd(b, m) ==
    IF ClosingFences(b, m) = {} THEN Len(b) + 1 ELSE SetMin(ClosingFences(b, m))

\* C28: the step that appends the Implementation segment of a marker line
\* skips the line after the marker, takes as code the lines from there up to
\* and not including the next line beginning with three backticks, each
\* followed by a line break, resumes on the line after that closing line (at
\* the end of the input when there is none), and leaves the open-fence flag
\* false.
C28_ConsumesFencedBlock ==
    [][(Scanning /\ ~inCodeBlock /\ IsImplMarker(body[pos]) /\ pc' # "panic") =>
          /\ parts'[Len(parts')].type = "Implementation"
          /\ parts'[Len(parts')].Code = JoinLines(body, pos + 2, CodeEnd(body, pos) - 1)
          /\ IF ClosingFences(body, pos) = {}
             THEN pos' > Len(body)
             ELSE pos' = CodeEnd(body, pos) + 1
          /\ ~inCodeBlock']_vars

C28_Witness ==
    /\ pc = "scan"
    /\ body = <<LnImpl, LnText, LnText, LnFence>>
    /\ pos = 5
    /\ parts = <<ImplementationPart(<<"g","o">>, LnText \o <<NL>>)>>
    /\ ~inCodeBlock

\* C29: no Markdown segment has empty content, during the scan and in the
\* result: a buffer of blank or whitespace-only lines produces none.
C29_NoEmptyMarkdown ==
    \A k \in 1..Len(parts) :
        parts[k].type = "Markdown" => parts[k].Content # <<>>

\* a line of text: not blank, not beginning with three backticks and
\* matched by none of the marker expressions
IsTextLine(line) ==
    /\ TrimSpace(line) # <<>>
    /\ ~HasPrefix(line, Fence)
    /\ Len(titleRegex(line)) <= 1
    /\ Len(sectionRegex(line)) <= 1
    /\ Len(implRegex(line)) <= 1

\* the text a segment carries in its content or code
SegmentText(p) ==
    IF p.type \in {"Markdown", "Section"} THEN p.Content
    ELSE IF p.type = "Implementation" THEN p.Code
    ELSE <<>>

\* the lines of text of the segments, in the order of the segments
RECURSIVE SegmentLines(_)
SegmentLines(ps) ==
    IF ps = <<>> THEN <<>>
    ELSE SelectSeq(ScanLines(SegmentText(Head(ps))), IsTextLine) \o SegmentLines(Tail(ps))

\* C30: in the result of parseMarkdownBody the lines of text of the body
\* (not blank, not a recognised marker line, not beginning with three
\* backticks) are the lines of text of the segments, each once and in the
\* same order.
C30_NoTextLost ==
    pc = "done" => SegmentLines(parts) = SelectSeq(body, IsTextLine)

----------------------------------------------------------------------------
(* Properties of discoverSkills *)

\* the entries of the root that are directories and parse without error
ValidSkillDirs ==
    {i \in 1..Len(entries) :
        entries[i].isDir /\ LET r == ParseSkillPackageOf(entries[i])
                            IN  ~r.panic /\ r.err = NoErr}

\* discoverSkills has returned its map
Discovered == cmd = "run" /\ bpc = "select"

\* C38: the map discoverSkills returns has as many packages as the root has
\* immediate subdirectories that parse successfully, and the package of each
\* of them is in the map.
C38_DropsNoSkill ==
    Discovered =>
        /\ Cardinality(skills) = Cardinality(ValidSkillDirs)
        /\ \A i \in ValidSkillDirs : \E s \in skills : s.dir = i

----------------------------------------------------------------------------
(* RunPythonScript *)

ErrPythonScript == "failed to run python script with both 'python3' and 'python'"

\* what starting an interpreter on the script can do: the executable is not
\* found and the script does not run, or the script runs, writes to its two
\* streams and exits with a status
InterpMissing == [found |-> FALSE, exit |-> 0, out |-> <<>>, errOut |-> <<>>]
InterpRuns ==
    [found : {TRUE}, exit : {0, 1}, out : {<<>>, <<"o">>}, errOut : {<<>>, <<"e">>}]
Interps == [python3 : {InterpMissing} \cup InterpRuns, python : {InterpMissing} \cup InterpRuns]

\* cmd.Run(): the error is nil only when the script ran and exited with 0
CmdRun(b) ==
    [ran    |-> b.found,
     failed |-> ~b.found \/ b.exit # 0,
     out    |-> IF b.found THEN b.out ELSE <<>>,
     errOut |-> IF b.found THEN b.errOut ELSE <<>>]

PyFrame ==
    /\ UNCHANGED scanVars /\ UNCHANGED pkgVars /\ UNCHANGED batchVars
    /\ UNCHANGED runVars /\ UNCHANGED interp

InitPy ==
    /\ body = <<>>
    /\ pos = ScanStart.pos
    /\ parts = ScanStart.parts
    /\ currentContent = ScanStart.cur
    /\ inCodeBlock = ScanStart.inCode
    /\ pc = "idle"
    /\ PkgIdle
    /\ BatchIdle
    /\ RunIdle
    /\ interp \in Interps
    /\ pyRuns = <<>>
    /\ stdout = <<>>
    /\ stderr = <<>>
    /\ pyOut = <<>>
    /\ pyErr = NoErr
    /\ ppc = "python3"

\* exec.Command("python3", ...) and the first cmd.Run()
RunPython3 ==
    /\ ppc = "python3"
    /\ LET r == CmdRun(interp.python3)
       IN  /\ pyRuns' = (IF r.ran THEN Append(pyRuns, "python3") ELSE pyRuns)
           /\ stdout' = stdout \o r.out
           /\ stderr' = stderr \o r.errOut
           /\ ppc' = (IF r.failed THEN "python" ELSE "return")
    /\ UNCHANGED <<pyOut, pyErr>>
    /\ PyFrame

\* if err != nil: exec.Command("python", ...), the buffers reset, cmd.Run()
RunPython ==
    /\ ppc = "python"
    /\ LET r == CmdRun(interp.python)
       IN  /\ pyRuns' = (IF r.ran THEN Append(pyRuns, "python") ELSE pyRuns)
           /\ stdout' = r.out
           /\ stderr' = r.errOut
           /\ IF r.failed
              THEN pyErr' = ErrPythonScript /\ ppc' = "returned"
              ELSE UNCHANGED pyErr /\ ppc' = "return"
    /\ UNCHANGED pyOut
    /\ PyFrame

\* return stdout.String() + stderr.String(), nil
ReturnOutput ==
    /\ ppc = "return"
    /\ pyOut' = stdout \o stderr
    /\ ppc' = "returned"
    /\ UNCHANGED <<pyRuns, stdout, stderr, pyErr>>
    /\ PyFrame

NextPy == RunPython3 \/ RunPython \/ ReturnOutput

SpecPy == InitPy /\ [][NextPy]_vars

\* C39: a call of RunPythonScript executes the script at most once: python
\* executes it only when python3 did not, and the output returned is the
\* output of that one run.
C39_SingleRun ==
    /\ Len(pyRuns) <= 1
    /\ (ppc = "returned" /\ pyErr = NoErr) =>
           \E i \in {"python3", "python"} :
               pyRuns = <<i>> /\ pyOut = interp[i].out \o interp[i].errOut

----------------------------------------------------------------------------
(* The run command: runCmd.RunE, selectSkill, executeSkillWithTools and     *)
(* executeToolCall                                                          *)

\* chunks one stream delivers at most, and messages the model keeps of the
\* history (the loop goes on when the history is longer)
MaxChunks == 2
MaxMessages == 5

ErrNoApiKey == "OPENAI_API_KEY environment variable is not set"
ErrSelection == "failed during skill selection"
ErrCreateStream == "ChatCompletionStream error"
ErrStream == "stream error"
ErrEmptyResponse == "LLM response was empty and contained no tool calls"

\* the names of the tools getToolDefinitions returns
AdvertisedTools ==
    {"run_shell_script", "run_python_script", "read_file", "write_file",
     "duckduckgo_search", "serpapi_search", "metaphor_search", "scrape_url",
     "wikipedia_search"}

\* the case labels of the switch of executeToolCall
DispatchedTools ==
    {"run_shell_script", "run_python_script", "read_file", "write_file",
     "duckduckgo_search", "wikipedia_search"}

\* what skillsPath holds when the run command starts
RunRoots ==
    {[ok |-> FALSE, list |-> <<>>],
     [ok |-> TRUE, list |-> <<>>],
     [ok |-> TRUE, list |-> <<EntFile, EntBadMeta>>],
     [ok |-> TRUE, list |-> <<EntPanics>>],
     [ok |-> TRUE, list |-> <<EntSkillX>>],
     [ok |-> TRUE, list |-> <<EntSkillX, EntSkillY>>]}

\* the keys of a map held as a set of pairs
Keys(m) == {p.Name : p \in m}

\* strings.Trim(s, cutset)
Trim(s, cutset) ==
    LET keep == {i \in 1..Len(s) : s[i] \notin cutset}
    IN  IF keep = {} THEN <<>> ELSE SubSeq(s, SetMin(keep), SetMax(keep))

\* selectSkill: the name taken from resp.Choices[0].Message.Content
CleanName(content) == Trim(TrimSpace(content), {"\"", "'"})

\* what the LLM can answer to the selection request
SelectReplies == {<<"x">>, <<" ", "\"", "Y", "\"", "\n">>, <<"z">>}

\* the system prompt rebuilt from the parts of the skill body
RECURSIVE SkillBodyText(_)
SkillBodyText(ps) ==
    IF ps = <<>> THEN <<>>
    ELSE LET p == Head(ps)
         IN  (CASE p.type = "Title" -> <<NL, "#", " ">> \o p.Text \o <<NL>>
                [] p.type = "Section" ->
                      <<NL, "#", "#", " ">> \o p.Title \o <<NL>> \o p.Content \o <<NL>>
                [] p.type = "Markdown" -> p.Content \o <<NL>>
                [] p.type = "Implementation" ->
                      <<NL, "Implementation in ">> \o p.Language \o <<":", NL>>
                      \o Fence \o p.Language \o <<NL>> \o p.Code \o Fence \o <<NL>>)
             \o SkillBodyText(Tail(ps))

userPrompt == <<"u">>

\* openai.ToolCall and openai.ChatCompletionMessage
ZeroToolCall == [ID |-> "", Type |-> "", Name |-> "", Arguments |-> <<>>]
Message(role, content, id, tcs) ==
    [Role |-> role, Content |-> content, ToolCallID |-> id, ToolCalls |-> tcs]

\* the model's history: append, up to MaxMessages messages
AppendMessage(ms, m) == IF Len(ms) < MaxMessages THEN Append(ms, m) ELSE ms

\* the tool-call deltas a chunk can carry: the start of a call at index 0,
\* more of its arguments, and the start of a call at index 1
DeltaRead ==
    [Index |-> 0, ID |-> "c1", Type |-> "function", Name |-> "read_file",
     Arguments |-> <<"{">>]
DeltaArgs == [Index |-> 0, ID |-> "", Type |-> "", Name |-> "", Arguments |-> <<"}">>]
DeltaScrape ==
    [Index |-> 1, ID |-> "c2", Type |-> "function", Name |-> "scrape_url",
     Arguments |-> <<"{", "}">>]

\* response.Choices[0].Delta of the chunks a stream can deliver
Chunk(content, deltas) == [Content |-> content, ToolCalls |-> deltas]
Chunks ==
    {Chunk(<<>>, <<>>),
     Chunk(<<"h", "i">>, <<>>),
     Chunk(<<>>, <<DeltaRead>>),
     Chunk(<<>>, <<DeltaArgs>>),
     Chunk(<<>>, <<DeltaScrape>>),
     Chunk(<<>>, <<DeltaRead, DeltaScrape>>)}

\* lines 462-475 for one delta: the slice afterwards, or the index that is
\* out of range
ApplyDelta(tcs, d) ==
    LET grown == IF Len(tcs) <= d.Index THEN Append(tcs, ZeroToolCall) ELSE tcs
        k == d.Index + 1
    IN  IF k > Len(grown) THEN [calls |-> grown, oob |-> TRUE]
        ELSE [calls |->
                [grown EXCEPT ![k] =
                    [ID |-> IF d.ID # "" THEN d.ID ELSE @.ID,
                     Type |-> IF d.Type # "" THEN d.Type ELSE @.Type,
                     Name |-> IF d.Name # "" THEN d.Name ELSE @.Name,
                     Arguments |-> @.Arguments \o d.Arguments]],
              oob |-> FALSE]

\* for _, tc := range response.Choices[0].Delta.ToolCalls
RECURSIVE Accumulate(_, _)
Accumulate(tcs, ds) ==
    IF ds = <<>> THEN [calls |-> tcs, oob |-> FALSE]
    ELSE LET r == ApplyDelta(tcs, Head(ds))
         IN  IF r.oob THEN r ELSE Accumulate(r.calls, Tail(ds))

\* json.Unmarshal of the arguments into the params struct: of the texts the
\* deltas can build, {} is the one JSON document
ValidJSON(a) == a = <<"{", "}">>

\* what the function of package tool returns to executeToolCall
ToolResults ==
    {[ok |-> TRUE, output |-> <<"o", "u", "t">>, err |-> <<>>],
     [ok |-> FALSE, output |-> <<>>, err |-> <<"exit status 1">>]}

\* executeToolCall(toolCall), res being what the tool function returns
executeToolCall(tc, res) ==
    IF tc.Name \notin DispatchedTools
    THEN [ok |-> FALSE, output |-> <<>>, err |-> <<"unknown tool: ", tc.Name>>]
    ELSE IF ~ValidJSON(tc.Arguments)
    THEN [ok |-> FALSE, output |-> <<>>,
          err |-> <<"failed to unmarshal ", tc.Name, " arguments">>]
    ELSE IF ~res.ok
    THEN [ok |-> FALSE, output |-> <<>>,
          err |-> <<"tool execution failed for ", tc.Name, ": ">> \o res.err]
    ELSE IF tc.Name = "write_file"
    THEN [ok |-> TRUE, output |-> <<"Successfully wrote to file: ">>, err |-> <<>>]
    ELSE [ok |-> TRUE, output |-> res.output, err |-> <<>>]

\* ToolMessages where a failed call adds no message
ToolMessagesOnSuccessOnly(ms, tc, r) ==
    IF ~r.ok
    THEN ms
    ELSE AppendMessage(AppendMessage(ms, Message("assistant", <<>>, "", <<tc>>)),
                       Message("tool", r.output, tc.ID, <<>>))

\* lines 493-512: the messages one executed tool call adds to the history
ToolMessages(ms, tc, r) ==
    IF ~r.ok
    THEN AppendMessage(ms, Message("tool", <<"Error: ">> \o r.err, tc.ID, <<>>))
    ELSE AppendMessage(AppendMessage(ms, Message("assistant", <<>>, "", <<tc>>)),
                       Message("tool", r.output, tc.ID, <<>>))

\* the steps of runCmd around discoverSkills and selectSkill leave the
\* variables of these two alone, except where they start them
RunFrame ==
    /\ UNCHANGED scanVars /\ UNCHANGED pkgVars /\ UNCHANGED pyVars
    /\ UNCHANGED <<apiKey, cmd, root, entries, idx, query, out, skills, prompt, parsed, bErr>>

InitRun ==
    /\ body = <<>>
    /\ pos = ScanStart.pos
    /\ parts = ScanStart.parts
    /\ currentContent = ScanStart.cur
    /\ inCodeBlock = ScanStart.inCode
    /\ pc = "idle"
    /\ PkgIdle
    /\ PyIdle
    /\ cmd = "run"
    /\ root \in RunRoots
    /\ entries = <<>>
    /\ idx = 0
    /\ query = <<>>
    /\ out = <<>>
    /\ skills = {}
    /\ prompt = <<>>
    /\ parsed = NotParsed
    /\ bErr = NoErr
    /\ bpc = "idle"
    /\ apiKey \in {<<>>, <<"k">>}
    /\ selectedSkillName = <<>>
    /\ messages = <<>>
    /\ toolCalls = <<>>
    /\ fullResponseContent = <<>>
    /\ recvd = 0
    /\ tcIdx = 0
    /\ printed = <<>>
    /\ calls = <<>>
    /\ rErr = NoErr
    /\ rpc = "start"

\* CheckApiKey without the test of the key
CheckApiKeyUntested ==
    /\ rpc = "start"
    /\ calls' = Append(calls, "discoverSkills")
    /\ rpc' = "discover"
    /\ bpc' = "readdir"
    /\ UNCHANGED rErr
    /\ UNCHANGED <<selectedSkillName, messages, toolCalls, fullResponseContent,
                   recvd, tcIdx, printed>>
    /\ RunFrame

\* the pre-flight check of OPENAI_API_KEY; with a key, step 1 calls
\* discoverSkills (the steps of discoverSkills are those of SpecBatch)
CheckApiKey ==
    /\ rpc = "start"
    /\ IF apiKey = <<>>
       THEN rErr' = ErrNoApiKey /\ rpc' = "returned" /\ UNCHANGED <<calls, bpc>>
       ELSE /\ calls' = Append(calls, "discoverSkills")
            /\ rpc' = "discover"
            /\ bpc' = "readdir"
            /\ UNCHANGED rErr
    /\ UNCHANGED <<selectedSkillName, messages, toolCalls, fullResponseContent,
                   recvd, tcIdx, printed>>
    /\ RunFrame

\* discoverSkills returned an error, or an empty map
DiscoverFails ==
    /\ rpc = "discover"
    /\ bpc = "returned"
    /\ bErr # NoErr
    /\ rErr' = bErr
    /\ rpc' = "returned"
    /\ UNCHANGED <<selectedSkillName, messages, toolCalls, fullResponseContent,
                   recvd, tcIdx, printed, calls, bpc>>
    /\ RunFrame

\* step 2: selectSkill has written its prompt and sends its one request
Select ==
    /\ rpc = "discover"
    /\ bpc = "returned"
    /\ bErr = NoErr
    /\ calls' = Append(calls, "selectSkill")
    /\ \/ /\ rErr' = ErrSelection
          /\ rpc' = "returned"
          /\ UNCHANGED selectedSkillName
       \/ \E content \in SelectReplies :
             /\ selectedSkillName' = CleanName(content)
             /\ rpc' = "lookup"
             /\ UNCHANGED rErr
    /\ UNCHANGED <<messages, toolCalls, fullResponseContent, recvd, tcIdx, printed, bpc>>
    /\ RunFrame

\* selectedSkill, ok := availableSkills[selectedSkillName]
Lookup ==
    /\ rpc = "lookup"
    /\ rpc' = (IF selectedSkillName \in Keys(skills) THEN "execute" ELSE "returned")
    /\ UNCHANGED <<selectedSkillName, messages, toolCalls, fullResponseContent,
                   recvd, tcIdx, printed, calls, rErr, bpc>>
    /\ RunFrame

\* step 3: executeSkillWithTools is called and builds the first two messages
Execute ==
    /\ rpc = "execute"
    /\ calls' = Append(calls, "executeSkillWithTools")
    /\ LET skill == CHOOSE p \in skills : p.Name = selectedSkillName
       IN  messages' = <<Message("system", SkillBodyText(skill.Body), "", <<>>),
                         Message("user", userPrompt, "", <<>>)>>
    /\ rpc' = "request"
    /\ UNCHANGED <<selectedSkillName, toolCalls, fullResponseContent,
                   recvd, tcIdx, printed, rErr, bpc>>
    /\ RunFrame

\* the top of the loop: client.CreateChatCompletionStream(ctx, req)
Request ==
    /\ rpc = "request"
    /\ \/ /\ rErr' = ErrCreateStream
          /\ rpc' = "returned"
       \/ /\ rpc' = "recv"
          /\ UNCHANGED rErr
    /\ toolCalls' = <<>>
    /\ fullResponseContent' = <<>>
    /\ recvd' = 0
    /\ tcIdx' = 0
    /\ UNCHANGED <<selectedSkillName, messages, printed, calls, bpc>>
    /\ RunFrame

\* stream.Recv(): the end of the stream, an error, or a chunk that is
\* accumulated
Recv ==
    /\ rpc = "recv"
    /\ \/ /\ rpc' = "decide"
          /\ UNCHANGED <<toolCalls, fullResponseContent, recvd, rErr>>
       \/ /\ rErr' = ErrStream
          /\ rpc' = "returned"
          /\ UNCHANGED <<toolCalls, fullResponseContent, recvd>>
       \/ /\ recvd < MaxChunks
          /\ \E c \in Chunks :
                LET r == Accumulate(toolCalls, c.ToolCalls)
                IN  /\ fullResponseContent' = fullResponseContent \o c.Content
                    /\ toolCalls' = r.calls
                    /\ rpc' = (IF r.oob THEN "panic" ELSE "recv")
          /\ recvd' = recvd + 1
          /\ UNCHANGED rErr
    /\ UNCHANGED <<selectedSkillName, messages, tcIdx, printed, calls, bpc>>
    /\ RunFrame

\* after the stream: the text response, the tool calls, or neither
Decide ==
    /\ rpc = "decide"
    /\ IF Len(fullResponseContent) > 0
       THEN /\ printed' = fullResponseContent
            /\ rpc' = "returned"
            /\ UNCHANGED <<tcIdx, rErr>>
       ELSE IF Len(toolCalls) > 0
       THEN /\ tcIdx' = 1
            /\ rpc' = "tools"
            /\ UNCHANGED <<printed, rErr>>
       ELSE /\ rErr' = ErrEmptyResponse
            /\ rpc' = "returned"
            /\ UNCHANGED <<printed, tcIdx>>
    /\ UNCHANGED <<selectedSkillName, messages, toolCalls, fullResponseContent,
                   recvd, calls, bpc>>
    /\ RunFrame

\* one iteration of `for _, tc := range toolCalls`; after the last one the
\* loop goes back to the request
ExecTool ==
    /\ rpc = "tools"
    /\ \E res \in ToolResults :
          messages' = ToolMessages(messages, toolCalls[tcIdx],
                                   executeToolCall(toolCalls[tcIdx], res))
    /\ tcIdx' = tcIdx + 1
    /\ rpc' = (IF tcIdx = Len(toolCalls) THEN "request" ELSE "tools")
    /\ UNCHANGED <<selectedSkillName, toolCalls, fullResponseContent,
                   recvd, printed, calls, rErr, bpc>>
    /\ RunFrame

NextRun ==
    \/ CheckApiKey
    \/ ReadDirRoot
    \/ SkipEntry
    \/ ParseEntry
    \/ ParseFails
    \/ StoreSkill
    \/ EndDiscover
    \/ SelectSkill
    \/ DiscoverFails
    \/ Select
    \/ Lookup
    \/ Execute
    \/ Request
    \/ Recv
    \/ Decide
    \/ ExecTool

SpecRun == InitRun /\ [][NextRun]_vars

\* the call of ParseSkillPackage in the loop of discoverSkills is pending
ParsePending == InLoop /\ entries[idx].isDir

\* SpecRun where every step that can be taken is eventually taken, as in
\* a program each of whose calls returns; for ParseEntry, which is enabled
\* exactly while the call is pending and ends that, weak fairness is
\* written as: the call is not pending for ever
SpecRunFair ==
    /\ SpecRun
    /\ WF_vars(CheckApiKey) /\ WF_vars(ReadDirRoot) /\ WF_vars(SkipEntry)
    /\ []<>(~ParsePending) /\ WF_vars(ParseFails) /\ WF_vars(StoreSkill)
    /\ WF_vars(EndDiscover) /\ WF_vars(SelectSkill) /\ WF_vars(DiscoverFails)
    /\ WF_vars(Select) /\ WF_vars(Lookup) /\ WF_vars(Execute) /\ WF_vars(Request)
    /\ WF_vars(Recv) /\ WF_vars(Decide) /\ WF_vars(ExecTool)

----------------------------------------------------------------------------
(* Properties of the run command *)

\* the content executeToolCall's result puts into the tool message
ReplyContent(r) == IF r.ok THEN r.output ELSE <<"Error: ">> \o r.err

\* the messages the step has appended to the history
NewMessages == SubSeq(messages', Len(messages) + 1, Len(messages'))

C32_ToolAfterAssistant ==
    \A k \in 1..Len(messages) :
        messages[k].Role = "tool" =>
            /\ k > 1
            /\ messages[k - 1].Role = "assistant"
            /\ \E j \in 1..Len(messages[k - 1].ToolCalls) :
                  messages[k - 1].ToolCalls[j].ID = messages[k].ToolCallID

\* the positions of the loop of executeSkillWithTools
InLoopOfRounds == rpc \in {"request", "recv", "decide", "tools"}

\* C33: a step leaves the loop of executeSkillWithTools only by returning:
\* with success and the text printed, no tool call executed, when the
\* response holds text; with the empty-response error when it holds neither
\* text nor tool calls; with the error of the request or of the stream.
\* Another round starts only after a response with tool calls and no text.
C33_LoopExits ==
    [][InLoopOfRounds =>
          /\ rpc' \in {"request", "recv", "decide", "tools", "returned"}
          /\ (rpc = "decide" /\ fullResponseContent # <<>>) =>
                (rpc' = "returned" /\ rErr' = NoErr /\ printed' = fullResponseContent
                   /\ messages' = messages)
          /\ (rpc = "decide" /\ fullResponseContent = <<>> /\ toolCalls = <<>>) =>
                (rpc' = "returned" /\ rErr' = ErrEmptyResponse)
          /\ (rpc = "decide" /\ fullResponseContent = <<>> /\ toolCalls # <<>>) =>
                rpc' = "tools"
          /\ (rpc = "request" /\ rpc' = "returned") => rErr' = ErrCreateStream
          /\ (rpc = "recv" /\ rpc' = "returned") => rErr' = ErrStream
          /\ (rpc = "tools") => rpc' # "returned"
          /\ (rpc # "request" /\ rpc' = "request") =>
                (fullResponseContent = <<>> /\ toolCalls # <<>>)]_vars

\* C34: once executeSkillWithTools has been called it eventually returns
\* (or ends in a panic), when every request and every tool call returns.
C34_Returns == (rpc = "request") ~> (rpc \in {"returned", "panic"})

\* C35: no tool call whose name getToolDefinitions advertises is answered
\* with the "unknown tool" error.
C35_AdvertisedDispatched ==
    \A k \in 1..Len(messages) :
        (/\ messages[k].Role = "tool"
         /\ Len(messages[k].Content) = 3
         /\ SubSeq(messages[k].Content, 1, 2) = <<"Error: ", "unknown tool: ">>)
            => messages[k].Content[3] \notin AdvertisedTools

\* C36: no step that accumulates the tool-call deltas of a chunk indexes the
\* slice out of range, and the arguments of a call grow at their end only.
C36_IndexInRange ==
    [][rpc = "recv" =>
          /\ rpc' # "panic"
          /\ \A k \in 1..Len(toolCalls) :
                /\ k <= Len(toolCalls')
                /\ IsPrefix(toolCalls[k].Arguments, toolCalls'[k].Arguments)]_vars

\* the step sends a request to the LLM: the one of selectSkill, or one of
\* the loop of executeSkillWithTools
SendsRequest ==
    \/ rpc = "request"
    \/ (rpc = "discover" /\ calls' = Append(calls, "selectSkill"))

\* C37: a request goes to the LLM only with a non-empty key and a non-empty
\* set of discovered skills; discoverSkills, selectSkill and
\* executeSkillWithTools are called in this order; executeSkillWithTools is
\* called only for a selected name that is a key of the discovered set; with
\* any other selected name the command returns without calling it, and
\* once it has returned it takes no further step.
C37_RunOrder ==
    /\ [][/\ rpc # "returned"
          /\ SendsRequest => (apiKey # <<>> /\ skills # {})
          /\ (rpc = "lookup" /\ selectedSkillName \notin Keys(skills)) =>
                (rpc' = "returned" /\ rErr' = NoErr /\ calls' = calls)]_vars
    /\ [](/\ IsPrefix(calls, <<"discoverSkills", "selectSkill", "executeSkillWithTools">>)
          /\ Len(calls) = 3 => selectedSkillName \in Keys(skills))

C37_Witness ==
    /\ rpc = "returned"
    /\ apiKey # <<>>
    /\ calls = <<"discoverSkills", "selectSkill">>
    /\ selectedSkillName = <<"z">>
    /\ Keys(skills) = {<<"x">>, <<"Y">>}
    /\ rErr = NoErr
====
